---- MODULE Spec2Model ----
(***************************************************************************)
(* CloudflareSpeedTest: the bounded-concurrency prober (task/tcping.go),   *)
(* the ranking/filtering pipeline (utils/csv.go) and the sequential        *)
(* download measurement (task/download.go).                                *)
(*                                                                         *)
(* Durations are integers (milliseconds).  A loss rate is the float32      *)
(* quotient of two small integers; it is kept as a reduced fraction        *)
(* <<num, den>>, which is equal and ordered exactly as the float32 values  *)
(* are for the small operands used here.                                   *)
(***************************************************************************)
EXTENDS Integers, Sequences, FiniteSets, TLC

VARIABLES
    Routines,       \* task.Routines (global configuration)
    TCPPort,        \* task.TCPPort
    PingTimes,      \* task.PingTimes
    Httping,        \* task.Httping
    ips,            \* Ping.ips
    csv,            \* Ping.csv, the shared result accumulator
    control,        \* Ping.control, the buffered channel (its queued values)
    controlCap,     \* capacity given to make(chan bool, Routines)
    wg,             \* counter of Ping.wg
    m,              \* holder of Ping.m (0 = unlocked)
    runPc,          \* position of the goroutine executing NewPing / Ping.Run
    runIdx,         \* index of the range loop of Ping.Run
    unit,           \* per candidate: the goroutine executing Ping.start
    nowAble,        \* last label handed to bar.Grow
    result,         \* value returned by Ping.Run
    cfData,         \* one CloudflareIPData whose loss rate is read
    lastRate,       \* value returned by the latest cf.getLossRate()
    fIn,            \* the PingDelaySet a filter or sort.Sort is called on
    fOut,           \* the PingDelaySet the filter returned
    fOp,            \* the operation applied last
    InputMinDelay,  \* utils.InputMinDelay
    InputMaxDelay,  \* utils.InputMaxDelay
    InputMaxLossRate, \* utils.InputMaxLossRate
    URL,            \* task.URL
    Timeout,        \* task.Timeout
    Disable,        \* task.Disable
    TestCount,      \* task.TestCount
    MinSpeed,       \* task.MinSpeed
    Debug,          \* utils.Debug
    ipSet,          \* argument of TestDownloadSpeed (the caller's array)
    speedSet,       \* speedSet of TestDownloadSpeed
    aliased,        \* speedSet shares the array of ipSet
    testNum,        \* testNum of TestDownloadSpeed
    dlI,            \* loop index i of TestDownloadSpeed
    dlPc,           \* position in TestDownloadSpeed
    active,         \* candidates whose downloadHandler call is running
    response,       \* what the network answers to the running or last call
    started,        \* candidates downloadHandler was called for, in order
    TestAll,        \* task.TestAll
    IPText,         \* task.IPText
    IPs,            \* IPs of loadIPRanges: the fields of IPText
    ipIdx,          \* position of the range loop of loadIPRanges in IPs
    ranges,         \* ranges of loadIPRanges: an IPRanges
    minIP,          \* minIP of chooseIPv4
    hosts,          \* hosts of chooseIPv4
    ipPc,           \* position in loadIPRanges
    checked,        \* the default checks applied so far
    contentLength,  \* contentLength of downloadHandler
    contentRead,    \* contentRead
    lastContentRead, \* lastContentRead
    timeCounter,    \* timeCounter
    currentTime,    \* currentTime of the running iteration, from timeStart
    bufferRead,     \* bufferRead of the latest response.Body.Read
    readErr,        \* err of the latest response.Body.Read
    samples,        \* the values handed to e.Add, in order
    reads,          \* number of calls of response.Body.Read
    seen,           \* what the loop has met: EOF, a read error, the deadline
    rdPc            \* position in the read loop

pingVars == <<Routines, TCPPort, PingTimes, Httping, ips, csv, control, controlCap,
              wg, m, runPc, runIdx, unit, nowAble, result>>

lossVars == <<cfData, lastRate>>

filterVars == <<fIn, fOut, fOp, InputMinDelay, InputMaxDelay, InputMaxLossRate>>

dlVars == <<URL, Timeout, Disable, TestCount, MinSpeed, Debug, ipSet, speedSet,
            aliased, testNum, dlI, dlPc, active, started, response>>

ipVars == <<TestAll, IPText, IPs, ipIdx, ranges, minIP, hosts, ipPc>>

cfgVars == <<checked>>

readVars == <<contentLength, contentRead, lastContentRead, timeCounter,
              currentTime, bufferRead, readErr, samples, reads, seen, rdPc>>

vars == <<pingVars, lossVars, filterVars, dlVars, ipVars, cfgVars, readVars>>

----------------------------------------------------------------------------
(* Bounds of the model *)

MaxIPs == 2

(* Inputs of the prober: configured values and probe outcomes *)

RoutinesInputs == {0, 1, 2}
TCPPortInputs == {0, 443}
PingTimesInputs == {1, 2}
ProbeDelays == {1, 2}

(* Program constants *)

maxRoutine == 1000
defaultRoutines == 200
defaultPort == 443
defaultPingTimes == 4

----------------------------------------------------------------------------
(* float32 loss rates as reduced fractions *)

RECURSIVE GCD(_, _)
GCD(a, b) == IF b = 0 THEN a ELSE GCD(b, a % b)

Frac(n, d) == LET g == GCD(n, d) IN <<n \div g, d \div g>>

FracZero == <<0, 1>>

FracLess(a, b) == a[1] * b[2] < b[1] * a[2]

FracLeq(a, b) == a[1] * b[2] <= b[1] * a[2]

----------------------------------------------------------------------------
(* utils.CloudflareIPData and the order of utils.PingDelaySet *)

NewCloudflareIPData(ip, sended, received, delay, colo) ==
    [IP |-> ip, Sended |-> sended, Received |-> received, Delay |-> delay,
     Colo |-> colo, lossRate |-> FracZero, DownloadSpeed |-> 0]

\* value returned by cf.getLossRate()
getLossRate(cf) ==
    IF cf.lossRate = FracZero
    THEN Frac(cf.Sended - cf.Received, cf.Sended)
    ELSE cf.lossRate

\* the record after cf.getLossRate() (the cache is written)
getLossRateStore(cf) == [cf EXCEPT !.lossRate = getLossRate(cf)]

LessNoTieBreak(s, i, j) ==
    LET iRate == getLossRate(s[i])
        jRate == getLossRate(s[j])
    IN  iRate # jRate /\ FracLess(iRate, jRate)

Less(s, i, j) ==
    LET iRate == getLossRate(s[i])
        jRate == getLossRate(s[j])
    IN  IF iRate # jRate
        THEN FracLess(iRate, jRate)
        ELSE s[i].Delay < s[j].Delay

\* the set after a call of Less(i, j): both elements have their cache written
LessStore(s, i, j) ==
    [s EXCEPT ![i] = getLossRateStore(s[i]), ![j] = getLossRateStore(s[j])]

Swap(s, i, j) == [s EXCEPT ![i] = s[j], ![j] = s[i]]

\* sort.Sort on fewer than 12 elements is an insertion sort:
\*   for i := a + 1; i < b; i++ {
\*       for j := i; j > a && data.Less(j, j-1); j-- { data.Swap(j, j-1) } }
RECURSIVE insertionInner(_, _)
insertionInner(s, j) ==
    IF j <= 1 THEN s
    ELSE IF Less(s, j, j - 1)
         THEN insertionInner(Swap(LessStore(s, j, j - 1), j, j - 1), j - 1)
         ELSE LessStore(s, j, j - 1)

RECURSIVE insertionSort(_, _)
insertionSort(s, i) ==
    IF i > Len(s) THEN s ELSE insertionSort(insertionInner(s, i), i + 1)

SortPingDelaySet(s) == IF Len(s) <= 1 THEN s ELSE insertionSort(s, 2)

----------------------------------------------------------------------------
(* task/tcping.go: configuration check and construction *)

checkRoutines(r) == IF r <= 0 THEN defaultRoutines ELSE r

\* the port check with 65535 accepted
checkTCPPortInclusive(p) == IF p <= 0 \/ p > 65535 THEN defaultPort ELSE p

checkTCPPort(p) == IF p <= 0 \/ p >= 65535 THEN defaultPort ELSE p

checkPingTimes(n) == IF n <= 0 THEN defaultPingTimes ELSE n

\* outcome of one tcping(ip): <<ok, duration>>
ProbeOutcomes == {<<FALSE, 0>>} \cup {<<TRUE, d>> : d \in ProbeDelays}

Colos == {"", "LAX"}

\* the goroutine of Ping.start before it is created
IdleUnit ==
    [pc |-> "idle", recv |-> 0, totalDlay |-> 0, colo |-> "", tmp |-> <<>>,
     succ |-> 0, sum |-> 0]

\* the for loop of checkConnection over the outcomes r of its tcping calls
RECURSIVE tcpingLoop(_, _, _, _)
tcpingLoop(r, i, recv, totalDelay) ==
    IF i > Len(r) THEN <<recv, totalDelay>>
    ELSE IF r[i][1]
         THEN tcpingLoop(r, i + 1, recv + 1, totalDelay + r[i][2])
         ELSE tcpingLoop(r, i + 1, recv, totalDelay)

\* p.httping(ip): PingTimes requests, each a success with a delay or a failure
httping(r) == tcpingLoop(r, 1, 0, 0)

\* what the network did, counted independently of the loop
RECURSIVE SumDelays(_, _)
SumDelays(r, S) ==
    IF S = {} THEN 0
    ELSE LET i == CHOOSE x \in S : TRUE IN r[i][2] + SumDelays(r, S \ {i})

Successes(r) == {i \in 1..Len(r) : r[i][1]}

PingInit ==
    /\ Routines \in RoutinesInputs
    /\ TCPPort \in TCPPortInputs
    /\ PingTimes \in PingTimesInputs
    /\ Httping \in BOOLEAN
    /\ ips = <<>>
    /\ csv = <<>>
    /\ control = <<>>
    /\ controlCap = 0
    /\ wg = 0
    /\ m = 0
    /\ runPc = "new"
    /\ runIdx = 0
    /\ unit = <<>>
    /\ nowAble = 0
    /\ result = <<>>

\* NewPing: checkPingDefault, loadIPRanges, the channel sized by Routines
NewPing ==
    /\ runPc = "new"
    /\ Routines' = checkRoutines(Routines)
    /\ TCPPort' = checkTCPPort(TCPPort)
    /\ PingTimes' = checkPingTimes(PingTimes)
    /\ \E n \in 0..MaxIPs :
          /\ ips' = [i \in 1..n |-> i]
          /\ unit' = [i \in 1..n |-> IdleUnit]
    /\ controlCap' = Routines'
    /\ runPc' = "run"
    /\ checked' = checked \cup {"ping"}
    /\ UNCHANGED <<Httping, csv, control, wg, m, runIdx, nowAble, result>>
    /\ UNCHANGED <<lossVars, filterVars, dlVars, ipVars, readVars>>

----------------------------------------------------------------------------
(* Ping.Run *)

\* if len(p.ips) == 0 { return p.csv }
RunStart ==
    /\ runPc = "run"
    /\ IF Len(ips) = 0
       THEN /\ result' = csv
            /\ runPc' = "returned"
            /\ UNCHANGED runIdx
       ELSE /\ runPc' = "add"
            /\ runIdx' = 1
            /\ UNCHANGED result
    /\ UNCHANGED <<Routines, TCPPort, PingTimes, Httping, ips, csv, control,
                   controlCap, wg, m, unit, nowAble>>
    /\ UNCHANGED <<lossVars, filterVars, dlVars, ipVars, cfgVars, readVars>>

\* p.wg.Add(1)
RunAdd ==
    /\ runPc = "add"
    /\ wg' = wg + 1
    /\ runPc' = "send"
    /\ UNCHANGED <<Routines, TCPPort, PingTimes, Httping, ips, csv, control,
                   controlCap, m, runIdx, unit, nowAble, result>>
    /\ UNCHANGED <<lossVars, filterVars, dlVars, ipVars, cfgVars, readVars>>

\* p.control <- false (blocks while the buffer is full); go p.start(ip)
RunSendUnbounded ==
    /\ runPc = "send"
    /\ control' = Append(control, FALSE)
    /\ unit' = [unit EXCEPT ![runIdx].pc = "check"]
    /\ runIdx' = runIdx + 1
    /\ runPc' = IF runIdx = Len(ips) THEN "wait" ELSE "add"
    /\ UNCHANGED <<Routines, TCPPort, PingTimes, Httping, ips, csv, controlCap,
                   wg, m, nowAble, result>>
    /\ UNCHANGED <<lossVars, filterVars, dlVars, ipVars, cfgVars, readVars>>

RunSend ==
    /\ runPc = "send"
    /\ Len(control) < controlCap
    /\ control' = Append(control, FALSE)
    /\ unit' = [unit EXCEPT ![runIdx].pc = "check"]
    /\ runIdx' = runIdx + 1
    /\ runPc' = IF runIdx = Len(ips) THEN "wait" ELSE "add"
    /\ UNCHANGED <<Routines, TCPPort, PingTimes, Httping, ips, csv, controlCap,
                   wg, m, nowAble, result>>
    /\ UNCHANGED <<lossVars, filterVars, dlVars, ipVars, cfgVars, readVars>>

\* p.wg.Wait() returning without waiting
RunWaitNoBarrier ==
    /\ runPc = "wait"
    /\ runPc' = "sort"
    /\ UNCHANGED <<Routines, TCPPort, PingTimes, Httping, ips, csv, control,
                   controlCap, wg, m, runIdx, unit, nowAble, result>>
    /\ UNCHANGED <<lossVars, filterVars, dlVars, ipVars, cfgVars, readVars>>

\* p.wg.Wait(); p.bar.Done()
RunWait ==
    /\ runPc = "wait"
    /\ wg = 0
    /\ runPc' = "sort"
    /\ UNCHANGED <<Routines, TCPPort, PingTimes, Httping, ips, csv, control,
                   controlCap, wg, m, runIdx, unit, nowAble, result>>
    /\ UNCHANGED <<lossVars, filterVars, dlVars, ipVars, cfgVars, readVars>>

\* sort.Sort(p.csv); return p.csv
RunSort ==
    /\ runPc = "sort"
    /\ csv' = SortPingDelaySet(csv)
    /\ result' = csv'
    /\ runPc' = "returned"
    /\ UNCHANGED <<Routines, TCPPort, PingTimes, Httping, ips, control,
                   controlCap, wg, m, runIdx, unit, nowAble>>
    /\ UNCHANGED <<lossVars, filterVars, dlVars, ipVars, cfgVars, readVars>>

----------------------------------------------------------------------------
(* Ping.start, one goroutine per candidate *)

\* recv, totalDlay, colo := p.checkConnection(ip)
checkConnection(u) ==
    /\ unit[u].pc = "check"
    /\ \E r \in [1..PingTimes -> ProbeOutcomes] :
       \E c \in (IF Httping THEN Colos ELSE {""}) :
          LET res == IF Httping THEN httping(r) ELSE tcpingLoop(r, 1, 0, 0)
          IN  unit' = [unit EXCEPT ![u] =
                         [@ EXCEPT !.pc = "readLen",
                                   !.recv = res[1],
                                   !.totalDlay = res[2],
                                   !.colo = IF res[1] = 0 THEN "" ELSE c,
                                   !.succ = Cardinality(Successes(r)),
                                   !.sum = SumDelays(r, Successes(r))]]
    /\ UNCHANGED <<Routines, TCPPort, PingTimes, Httping, ips, csv, control,
                   controlCap, wg, m, runPc, runIdx, nowAble, result>>
    /\ UNCHANGED <<lossVars, filterVars, dlVars, ipVars, cfgVars, readVars>>

\* the lengths len(p.csv) can give while unit u reads it without the mutex:
\* another unit in the middle of p.csv = append(p.csv, ...) makes the read
\* return the old or the new length
RacyLen(u) ==
    IF \E v \in DOMAIN unit : v # u /\ unit[v].pc = "appendWrite"
    THEN {Len(csv), Len(csv) + 1}
    ELSE {Len(csv)}

\* tcpingHandler after checkConnection: nowAble := len(p.csv); bar.Grow;
\* if recv == 0 { return }; data := ...; p.appendIPData(data) up to p.m.Lock()
tcpingHandlerReadLen(u) ==
    /\ unit[u].pc = "readLen"
    /\ \E n \in RacyLen(u) :
          nowAble' = IF unit[u].recv # 0 THEN n + 1 ELSE n
    /\ unit' = [unit EXCEPT ![u].pc = IF unit[u].recv = 0 THEN "release" ELSE "lock"]
    /\ UNCHANGED <<Routines, TCPPort, PingTimes, Httping, ips, csv, control,
                   controlCap, wg, m, runPc, runIdx, result>>
    /\ UNCHANGED <<lossVars, filterVars, dlVars, ipVars, cfgVars, readVars>>

\* appendIPData entered without p.m.Lock()
appendIPDataNoLock(u) ==
    /\ unit[u].pc = "lock"
    /\ unit' = [unit EXCEPT ![u].pc = "appendRead"]
    /\ UNCHANGED <<Routines, TCPPort, PingTimes, Httping, ips, csv, control,
                   controlCap, wg, m, runPc, runIdx, nowAble, result>>
    /\ UNCHANGED <<lossVars, filterVars, dlVars, ipVars, cfgVars, readVars>>

\* p.m.Lock()
appendIPDataLock(u) ==
    /\ unit[u].pc = "lock"
    /\ m = 0
    /\ m' = u
    /\ unit' = [unit EXCEPT ![u].pc = "appendRead"]
    /\ UNCHANGED <<Routines, TCPPort, PingTimes, Httping, ips, csv, control,
                   controlCap, wg, runPc, runIdx, nowAble, result>>
    /\ UNCHANGED <<lossVars, filterVars, dlVars, ipVars, cfgVars, readVars>>

\* the read of p.csv in p.csv = append(p.csv, ...)
appendIPDataRead(u) ==
    /\ unit[u].pc = "appendRead"
    /\ unit' = [unit EXCEPT ![u].pc = "appendWrite", ![u].tmp = csv]
    /\ UNCHANGED <<Routines, TCPPort, PingTimes, Httping, ips, csv, control,
                   controlCap, wg, m, runPc, runIdx, nowAble, result>>
    /\ UNCHANGED <<lossVars, filterVars, dlVars, ipVars, cfgVars, readVars>>

\* the PingData built by tcpingHandler, wrapped by appendIPData
PingDataOf(u) ==
    NewCloudflareIPData(ips[u], PingTimes, unit[u].recv,
                        unit[u].totalDlay \div unit[u].recv, unit[u].colo)

\* the write of p.csv, then the deferred p.m.Unlock()
appendIPDataWrite(u) ==
    /\ unit[u].pc = "appendWrite"
    /\ csv' = Append(unit[u].tmp, PingDataOf(u))
    /\ m' = IF m = u THEN 0 ELSE m
    /\ unit' = [unit EXCEPT ![u].pc = "release", ![u].tmp = <<>>]
    /\ UNCHANGED <<Routines, TCPPort, PingTimes, Httping, ips, control,
                   controlCap, wg, runPc, runIdx, nowAble, result>>
    /\ UNCHANGED <<lossVars, filterVars, dlVars, ipVars, cfgVars, readVars>>

\* Ping.start without its receive from p.control
startKeepSlot(u) ==
    /\ unit[u].pc = "release"
    /\ unit' = [unit EXCEPT ![u].pc = "wgDone"]
    /\ UNCHANGED <<Routines, TCPPort, PingTimes, Httping, ips, csv, control,
                   controlCap, wg, m, runPc, runIdx, nowAble, result>>
    /\ UNCHANGED <<lossVars, filterVars, dlVars, ipVars, cfgVars, readVars>>

\* <-p.control
startRelease(u) ==
    /\ unit[u].pc = "release"
    /\ Len(control) > 0
    /\ control' = Tail(control)
    /\ unit' = [unit EXCEPT ![u].pc = "wgDone"]
    /\ UNCHANGED <<Routines, TCPPort, PingTimes, Httping, ips, csv, controlCap,
                   wg, m, runPc, runIdx, nowAble, result>>
    /\ UNCHANGED <<lossVars, filterVars, dlVars, ipVars, cfgVars, readVars>>

\* the deferred p.wg.Done()
startDone(u) ==
    /\ unit[u].pc = "wgDone"
    /\ wg' = wg - 1
    /\ unit' = [unit EXCEPT ![u].pc = "done"]
    /\ UNCHANGED <<Routines, TCPPort, PingTimes, Httping, ips, csv, control,
                   controlCap, m, runPc, runIdx, nowAble, result>>
    /\ UNCHANGED <<lossVars, filterVars, dlVars, ipVars, cfgVars, readVars>>

----------------------------------------------------------------------------
(* utils/csv.go: reading the loss rate of one record *)

MaxSended == 4

CountsInputs == {c \in (1..MaxSended) \X (0..MaxSended) : c[2] <= c[1]}

NoRate == <<>>

LossIdle ==
    /\ cfData = NewCloudflareIPData(0, 1, 1, 0, "")
    /\ lastRate = NoRate

LossInit ==
    /\ \E c \in CountsInputs : cfData = NewCloudflareIPData(1, c[1], c[2], 0, "")
    /\ lastRate = NoRate

\* a call of cf.getLossRate()
CallGetLossRate ==
    /\ lastRate' = getLossRate(cfData)
    /\ cfData' = getLossRateStore(cfData)
    /\ UNCHANGED <<pingVars, filterVars, dlVars, ipVars, cfgVars, readVars>>

\* an assignment to the exported fields cf.Sended and cf.Received
SetCounts ==
    /\ \E c \in CountsInputs :
          /\ <<cfData.Sended, cfData.Received>> # c
          /\ cfData' = [cfData EXCEPT !.Sended = c[1], !.Received = c[2]]
    /\ UNCHANGED lastRate
    /\ UNCHANGED <<pingVars, filterVars, dlVars, ipVars, cfgVars, readVars>>

----------------------------------------------------------------------------
(* utils/csv.go: FilterDelay, FilterLossRate and sort.Sort on a PingDelaySet *)

MaxLen == 3

maxDelay == 9999
minDelay == 0
maxLossRate == <<1, 1>>

(* Inputs of the filters *)

DelayInputs == {50, 100, 200, 300, 10000}
ReceivedInputs == {2, 3, 4}
MinDelayInputs == {-1, 0, 100}
MaxDelayInputs == {200, 9999, 10000}
MaxLossRateInputs == {<<0, 1>>, <<1, 4>>, <<1, 1>>}

RECURSIVE FilterDelayLoopNoBreak(_, _, _, _, _)
FilterDelayLoopNoBreak(s, i, data, InMin, InMax) ==
    IF i > Len(s) THEN data
    ELSE IF s[i].Delay > InMax \/ s[i].Delay < InMin
         THEN FilterDelayLoopNoBreak(s, i + 1, data, InMin, InMax)
         ELSE FilterDelayLoopNoBreak(s, i + 1, Append(data, s[i]), InMin, InMax)

\* the range loop of FilterDelay
RECURSIVE FilterDelayLoop(_, _, _, _, _)
FilterDelayLoop(s, i, data, InMin, InMax) ==
    IF i > Len(s) THEN data
    ELSE IF s[i].Delay > InMax
         THEN data
         ELSE IF s[i].Delay < InMin
              THEN FilterDelayLoop(s, i + 1, data, InMin, InMax)
              ELSE FilterDelayLoop(s, i + 1, Append(data, s[i]), InMin, InMax)

FilterDelayNoBreak(s, InMin, InMax) ==
    IF InMax > maxDelay \/ InMin < minDelay THEN s
    ELSE IF InMax = maxDelay /\ InMin = minDelay THEN s
         ELSE FilterDelayLoopNoBreak(s, 1, <<>>, InMin, InMax)

FilterDelayNoDefault(s, InMin, InMax) ==
    IF InMax > maxDelay \/ InMin < minDelay THEN s
    ELSE FilterDelayLoop(s, 1, <<>>, InMin, InMax)

\* FilterDelay with each bound validated on its own
FilterDelayEachBound(s, InMin, InMax) ==
    LET lo == IF InMin < minDelay THEN minDelay ELSE InMin
        hi == IF InMax > maxDelay THEN maxDelay ELSE InMax
    IN  IF hi = maxDelay /\ lo = minDelay THEN s
        ELSE FilterDelayLoop(s, 1, <<>>, lo, hi)

\* s.FilterDelay() with InputMinDelay = InMin and InputMaxDelay = InMax
FilterDelay(s, InMin, InMax) ==
    IF InMax > maxDelay \/ InMin < minDelay THEN s
    ELSE IF InMax = maxDelay /\ InMin = minDelay THEN s
         ELSE FilterDelayLoop(s, 1, <<>>, InMin, InMax)

\* the range loop of FilterLossRate; v is a copy whose cache is written by
\* v.getLossRate() before it is appended
RECURSIVE FilterLossRateLoop(_, _, _, _)
FilterLossRateLoop(s, i, data, InMaxLoss) ==
    IF i > Len(s) THEN data
    ELSE IF FracLess(InMaxLoss, getLossRate(s[i]))
         THEN data
         ELSE FilterLossRateLoop(s, i + 1, Append(data, getLossRateStore(s[i])),
                                 InMaxLoss)

RECURSIVE FilterLossRateLoopExclusive(_, _, _, _)
FilterLossRateLoopExclusive(s, i, data, InMaxLoss) ==
    IF i > Len(s) THEN data
    ELSE IF FracLeq(InMaxLoss, getLossRate(s[i]))
         THEN data
         ELSE FilterLossRateLoopExclusive(s, i + 1,
                                          Append(data, getLossRateStore(s[i])),
                                          InMaxLoss)

FilterLossRateExclusive(s, InMaxLoss) ==
    IF FracLeq(maxLossRate, InMaxLoss) THEN s
    ELSE FilterLossRateLoopExclusive(s, 1, <<>>, InMaxLoss)

\* s.FilterLossRate() with InputMaxLossRate = InMaxLoss
FilterLossRate(s, InMaxLoss) ==
    IF FracLeq(maxLossRate, InMaxLoss) THEN s
    ELSE FilterLossRateLoop(s, 1, <<>>, InMaxLoss)

RECURSIVE SeqsUpTo(_, _)
SeqsUpTo(S, n) ==
    IF n = 0 THEN {<<>>}
    ELSE LET shorter == SeqsUpTo(S, n - 1)
         IN  shorter \cup {Append(q, x) : q \in {q \in shorter : Len(q) = n - 1}, x \in S}

\* the sets handed to the filters: records of distinct candidates, as the
\* prober builds them (Sended = defaultPingTimes, 1 <= Received <= Sended)
FilterInputs ==
    {[i \in 1..Len(q) |->
         NewCloudflareIPData(i, defaultPingTimes, q[i][1], q[i][2], "")] :
       q \in SeqsUpTo(ReceivedInputs \X DelayInputs, MaxLen)}

FilterIdle ==
    /\ fIn = <<>>
    /\ fOut = <<>>
    /\ fOp = "idle"
    /\ InputMinDelay = minDelay
    /\ InputMaxDelay = maxDelay
    /\ InputMaxLossRate = maxLossRate

FilterInit ==
    /\ fIn \in FilterInputs
    /\ fOut = <<>>
    /\ fOp = "none"
    /\ InputMinDelay = minDelay
    /\ InputMaxDelay = maxDelay
    /\ InputMaxLossRate = maxLossRate

\* sort.Sort(fIn), in place
DoSort ==
    /\ fOp = "none"
    /\ fIn' = SortPingDelaySet(fIn)
    /\ fOp' = "sort"
    /\ UNCHANGED <<fOut, InputMinDelay, InputMaxDelay, InputMaxLossRate>>
    /\ UNCHANGED <<pingVars, lossVars, dlVars, ipVars, cfgVars, readVars>>

\* the delay window is configured, then fIn.FilterDelay() is called
DoFilterDelay ==
    /\ fOp \in {"none", "sort"}
    /\ \E lo \in MinDelayInputs, hi \in MaxDelayInputs :
          /\ InputMinDelay' = lo
          /\ InputMaxDelay' = hi
          /\ fOut' = FilterDelay(fIn, lo, hi)
    /\ fOp' = "FilterDelay"
    /\ UNCHANGED <<fIn, InputMaxLossRate>>
    /\ UNCHANGED <<pingVars, lossVars, dlVars, ipVars, cfgVars, readVars>>

\* the ceiling is configured, then fIn.FilterLossRate() is called
DoFilterLossRate ==
    /\ fOp \in {"none", "sort"}
    /\ \E c \in MaxLossRateInputs :
          /\ InputMaxLossRate' = c
          /\ fOut' = FilterLossRate(fIn, c)
    /\ fOp' = "FilterLossRate"
    /\ UNCHANGED <<fIn, InputMinDelay, InputMaxDelay>>
    /\ UNCHANGED <<pingVars, lossVars, dlVars, ipVars, cfgVars, readVars>>

----------------------------------------------------------------------------
(* task/download.go: TestDownloadSpeed *)

MaxSet == 3

defaultURL == "https://cf.xiu2.xyz/url"
defaultTimeout == 10000
defaultTestNum == 10
defaultMinSpeed == 0

(* Inputs of the download measurement *)

URLInputs == {"", defaultURL}
TimeoutInputs == {0, defaultTimeout}
TestCountInputs == {0, 1, 2}
MinSpeedInputs == {-1, 0, 1}
SpeedInputs == {524288, 2097152, 3145728}

checkURL(u) == IF u = "" THEN defaultURL ELSE u

checkTimeout(d) == IF d <= 0 THEN defaultTimeout ELSE d

checkTestCount(n) == IF n <= 0 THEN defaultTestNum ELSE n

checkMinSpeed(x) == IF x <= 0 THEN defaultMinSpeed ELSE x

\* the redirects CheckRedirect lets the client follow
maxRedirects == 10

HopsInputs == {0, maxRedirects, maxRedirects + 1}
StatusInputs == {200, 404}

NoResponse == [err |-> "none", hops |-> 0, status |-> 0, speed |-> 0, colo |-> ""]

\* what one call of downloadHandler meets: http.NewRequest fails, client.Do
\* fails, or the server answers hops redirects and then status, with a tag
\* in its headers and a body read at speed bytes per second
ResponseInputs ==
    {[NoResponse EXCEPT !.err = e] : e \in {"request", "transport"}}
    \cup {[err |-> "", hops |-> h, status |-> st, speed |-> sp, colo |-> c] :
             h \in HopsInputs, st \in StatusInputs, sp \in SpeedInputs, c \in Colos}

\* the response client.Do hands back: CheckRedirect answers ErrUseLastResponse
\* once more than maxRedirects requests were made, and the client then returns
\* the redirect itself
StatusCode(r) == IF r.hops > maxRedirects THEN 302 ELSE r.status

\* downloadHandler without the check of the status code
downloadHandlerAnyStatus(r) ==
    IF r.err = "request" THEN <<0, "">>
    ELSE IF r.err = "transport" THEN <<0, "">>
    ELSE <<r.speed, r.colo>>

\* downloadHandler(ip): 0.0 and no tag on a failure, otherwise the speed in
\* bytes per second and the tag of the response
downloadHandler(r) ==
    IF r.err = "request" THEN <<0, "">>
    ELSE IF r.err = "transport" THEN <<0, "">>
    ELSE IF StatusCode(r) # 200 THEN <<0, "">>
    ELSE <<r.speed, r.colo>>

\* the comparison turned round: slowest first
LessSpeedAscending(s, i, j) == s[i].DownloadSpeed < s[j].DownloadSpeed

\* DownloadSpeedSet.Less: fastest first
LessSpeed(s, i, j) == s[i].DownloadSpeed > s[j].DownloadSpeed

\* sort.Sort(speedSet): the insertion sort with DownloadSpeedSet.Less
RECURSIVE insertionInnerSpeed(_, _)
insertionInnerSpeed(s, j) ==
    IF j <= 1 THEN s
    ELSE IF LessSpeed(s, j, j - 1)
         THEN insertionInnerSpeed(Swap(s, j, j - 1), j - 1)
         ELSE s

RECURSIVE insertionSortSpeed(_, _)
insertionSortSpeed(s, i) ==
    IF i > Len(s) THEN s ELSE insertionSortSpeed(insertionInnerSpeed(s, i), i + 1)

SortDownloadSpeedSet(s) == IF Len(s) <= 1 THEN s ELSE insertionSortSpeed(s, 2)

\* the delay-ordered sets handed to TestDownloadSpeed
DownloadInputs ==
    {[i \in 1..Len(q) |->
         NewCloudflareIPData(i, defaultPingTimes, defaultPingTimes, 100 * i, q[i])] :
       q \in SeqsUpTo(Colos, MaxSet)}

DlIdle ==
    /\ URL = defaultURL
    /\ Timeout = defaultTimeout
    /\ Disable = FALSE
    /\ TestCount = defaultTestNum
    /\ MinSpeed = defaultMinSpeed
    /\ Debug = FALSE
    /\ ipSet = <<>>
    /\ speedSet = <<>>
    /\ aliased = FALSE
    /\ testNum = 0
    /\ dlI = 0
    /\ dlPc = "idle"
    /\ active = {}
    /\ started = <<>>
    /\ response = NoResponse

DlInit ==
    /\ URL \in URLInputs
    /\ Timeout \in TimeoutInputs
    /\ Disable \in BOOLEAN
    /\ TestCount \in TestCountInputs
    /\ MinSpeed \in MinSpeedInputs
    /\ Debug \in BOOLEAN
    /\ ipSet \in DownloadInputs
    /\ speedSet = <<>>
    /\ aliased = FALSE
    /\ testNum = 0
    /\ dlI = 0
    /\ dlPc = "start"
    /\ active = {}
    /\ started = <<>>
    /\ response = NoResponse

\* TestDownloadSpeed without the early return on Disable
DlStartIgnoreDisable ==
    /\ dlPc = "start"
    /\ URL' = checkURL(URL)
    /\ Timeout' = checkTimeout(Timeout)
    /\ MinSpeed' = checkMinSpeed(MinSpeed)
    /\ LET tc == checkTestCount(TestCount)
           tn == IF Len(ipSet) < tc \/ MinSpeed' > 0 THEN Len(ipSet) ELSE tc
       IN  IF Len(ipSet) <= 0
           THEN /\ dlPc' = "done"
                /\ TestCount' = tc
                /\ UNCHANGED <<speedSet, aliased, testNum, dlI>>
           ELSE /\ testNum' = tn
                /\ TestCount' = IF tn < tc THEN tn ELSE tc
                /\ dlI' = 1
                /\ dlPc' = "loop"
                /\ UNCHANGED <<speedSet, aliased>>
    /\ UNCHANGED <<Disable, Debug, ipSet, active, started, response>>
    /\ checked' = checked \cup {"download"}
    /\ UNCHANGED <<pingVars, lossVars, filterVars, ipVars, readVars>>

\* TestDownloadSpeed with a queue that ignores the configured minimum speed
DlStartQueueIsCount ==
    /\ dlPc = "start"
    /\ URL' = checkURL(URL)
    /\ Timeout' = checkTimeout(Timeout)
    /\ MinSpeed' = checkMinSpeed(MinSpeed)
    /\ LET tc == checkTestCount(TestCount)
           tn == IF Len(ipSet) < tc THEN Len(ipSet) ELSE tc
       IN  IF Disable
           THEN /\ speedSet' = ipSet
                /\ aliased' = TRUE
                /\ dlPc' = "done"
                /\ TestCount' = tc
                /\ UNCHANGED <<testNum, dlI>>
           ELSE IF Len(ipSet) <= 0
                THEN /\ dlPc' = "done"
                     /\ TestCount' = tc
                     /\ UNCHANGED <<speedSet, aliased, testNum, dlI>>
                ELSE /\ testNum' = tn
                     /\ TestCount' = IF tn < tc THEN tn ELSE tc
                     /\ dlI' = 1
                     /\ dlPc' = "loop"
                     /\ UNCHANGED <<speedSet, aliased>>
    /\ UNCHANGED <<Disable, Debug, ipSet, active, started, response>>
    /\ checked' = checked \cup {"download"}
    /\ UNCHANGED <<pingVars, lossVars, filterVars, ipVars, readVars>>

\* TestDownloadSpeed up to its loop: checkDownloadDefault, the two early
\* returns, testNum and the adjustment of TestCount
DlStart ==
    /\ dlPc = "start"
    /\ URL' = checkURL(URL)
    /\ Timeout' = checkTimeout(Timeout)
    /\ MinSpeed' = checkMinSpeed(MinSpeed)
    /\ LET tc == checkTestCount(TestCount)
           tn == IF Len(ipSet) < tc \/ MinSpeed' > 0 THEN Len(ipSet) ELSE tc
       IN  IF Disable
           THEN /\ speedSet' = ipSet
                /\ aliased' = TRUE
                /\ dlPc' = "done"
                /\ TestCount' = tc
                /\ UNCHANGED <<testNum, dlI>>
           ELSE IF Len(ipSet) <= 0
                THEN /\ dlPc' = "done"
                     /\ TestCount' = tc
                     /\ UNCHANGED <<speedSet, aliased, testNum, dlI>>
                ELSE /\ testNum' = tn
                     /\ TestCount' = IF tn < tc THEN tn ELSE tc
                     /\ dlI' = 1
                     /\ dlPc' = "loop"
                     /\ UNCHANGED <<speedSet, aliased>>
    /\ UNCHANGED <<Disable, Debug, ipSet, active, started, response>>
    /\ checked' = checked \cup {"download"}
    /\ UNCHANGED <<pingVars, lossVars, filterVars, ipVars, readVars>>

\* the loop calls downloadHandler(ipSet[i].IP)
DlBegin ==
    /\ dlPc = "loop"
    /\ active' = active \cup {dlI}
    /\ started' = Append(started, dlI)
    /\ response' \in ResponseInputs
    /\ dlPc' = "download"
    /\ UNCHANGED <<URL, Timeout, Disable, TestCount, MinSpeed, Debug, ipSet,
                   speedSet, aliased, testNum, dlI>>
    /\ UNCHANGED <<pingVars, lossVars, filterVars, ipVars, cfgVars, readVars>>

\* the iteration without its break
DlFinishNoBreak ==
    /\ dlPc = "download"
    /\ LET o == downloadHandler(response)
           speed == o[1]
           colo == o[2]
           rec == [ipSet[dlI] EXCEPT !.DownloadSpeed = speed,
                                     !.Colo = IF @ = "" THEN colo ELSE @]
           ok == speed >= MinSpeed * 1024 * 1024
           ss == IF ok THEN Append(speedSet, rec) ELSE speedSet
           brk == FALSE
       IN  /\ ipSet' = [ipSet EXCEPT ![dlI] = rec]
           /\ speedSet' = ss
           /\ dlI' = IF brk THEN dlI ELSE dlI + 1
           /\ dlPc' = IF brk \/ dlI + 1 > testNum THEN "finish" ELSE "loop"
    /\ active' = active \ {dlI}
    /\ UNCHANGED <<URL, Timeout, Disable, TestCount, MinSpeed, Debug, aliased,
                   testNum, started, response>>
    /\ UNCHANGED <<pingVars, lossVars, filterVars, ipVars, cfgVars, readVars>>

\* the rest of one iteration, from the return of downloadHandler: the speed
\* and the tag are stored, the record is collected if it reaches the
\* threshold, and the loop breaks on len(speedSet) == TestCount
DlFinish ==
    /\ dlPc = "download"
    /\ LET o == downloadHandler(response)
           speed == o[1]
           colo == o[2]
           rec == [ipSet[dlI] EXCEPT !.DownloadSpeed = speed,
                                     !.Colo = IF @ = "" THEN colo ELSE @]
           ok == speed >= MinSpeed * 1024 * 1024
           ss == IF ok THEN Append(speedSet, rec) ELSE speedSet
           brk == ok /\ Len(ss) = TestCount
       IN  /\ ipSet' = [ipSet EXCEPT ![dlI] = rec]
           /\ speedSet' = ss
           /\ dlI' = IF brk THEN dlI ELSE dlI + 1
           /\ dlPc' = IF brk \/ dlI + 1 > testNum THEN "finish" ELSE "loop"
    /\ active' = active \ {dlI}
    /\ UNCHANGED <<URL, Timeout, Disable, TestCount, MinSpeed, Debug, aliased,
                   testNum, started, response>>
    /\ UNCHANGED <<pingVars, lossVars, filterVars, ipVars, cfgVars, readVars>>

\* the end of TestDownloadSpeed without the fallback of the debug mode
DlReturnNoFallback ==
    /\ dlPc = "finish"
    /\ LET useAll == MinSpeed = 0
           sorted == SortDownloadSpeedSet(IF useAll THEN ipSet ELSE speedSet)
       IN  /\ speedSet' = sorted
           /\ aliased' = useAll
           /\ ipSet' = IF useAll THEN sorted ELSE ipSet
    /\ dlPc' = "done"
    /\ UNCHANGED <<URL, Timeout, Disable, TestCount, MinSpeed, Debug, testNum,
                   dlI, active, started, response>>
    /\ UNCHANGED <<pingVars, lossVars, filterVars, ipVars, cfgVars, readVars>>

\* after the loop: bar.Done, the choice of the returned set, sort.Sort, return
DlReturn ==
    /\ dlPc = "finish"
    /\ LET useAll == MinSpeed = 0 \/ (Debug /\ Len(speedSet) = 0)
           sorted == SortDownloadSpeedSet(IF useAll THEN ipSet ELSE speedSet)
       IN  /\ speedSet' = sorted
           /\ aliased' = useAll
           /\ ipSet' = IF useAll THEN sorted ELSE ipSet
    /\ dlPc' = "done"
    /\ UNCHANGED <<URL, Timeout, Disable, TestCount, MinSpeed, Debug, testNum,
                   dlI, active, started, response>>
    /\ UNCHANGED <<pingVars, lossVars, filterVars, ipVars, cfgVars, readVars>>

----------------------------------------------------------------------------
(* task/download.go: the read loop of downloadHandler *)

MaxReads == 3

bufferSize == 1024

\* response.ContentLength: unknown (-1), nothing, or a number of bytes
ContentLengthInputs == {-1, 0, 1, bufferSize, bufferSize + 1}

\* the bytes one Read stores when more are to come
ChunkInputs == {1, bufferSize}

timeSlice == Timeout \div 100

\* how far time.Now() lies behind the previous reading of the clock
TickInputs == {0, 1, timeSlice + 1, Timeout + 1}

\* timeStart.Add(timeSlice * time.Duration(k)), from timeStart
SliceEnd(k) == timeSlice * k

\* what response.Body.Read(buffer) can return after cr bytes of a body
\* announced with L bytes. With a known length the body yields at most the
\* bytes that are left, io.EOF comes only with or after the last of them,
\* and a body that ends before is an error (io.ErrUnexpectedEOF); with an
\* unknown length the body ends with io.EOF wherever it ends
ReadOutcomes(L, cr) ==
    IF L = -1
    THEN {[n |-> k, err |-> "nil"] : k \in ChunkInputs}
         \cup {[n |-> k, err |-> "EOF"] : k \in {0} \cup ChunkInputs}
         \cup {[n |-> k, err |-> "error"] : k \in {0, 1}}
    ELSE {[n |-> k, err |-> "nil"] : k \in {c \in ChunkInputs : c <= L - cr}}
         \cup (IF L - cr <= bufferSize THEN {[n |-> L - cr, err |-> "EOF"]} ELSE {})
         \cup {[n |-> k, err |-> "error"] : k \in {c \in {0, 1} : c < L - cr}}

\* the argument of e.Add for a whole time slice and for the last one, as a
\* fraction: float64(d) / (float64(t) / float64(timeSlice))
SliceSample(d) == [kind |-> "slice", num |-> d, den |-> 1]

LastSample(d, t) == [kind |-> "last", num |-> d * timeSlice, den |-> t]

RdIdle ==
    /\ contentLength = 0
    /\ contentRead = 0
    /\ lastContentRead = 0
    /\ timeCounter = 1
    /\ currentTime = 0
    /\ bufferRead = 0
    /\ readErr = "nil"
    /\ samples = <<>>
    /\ reads = 0
    /\ seen = {}
    /\ rdPc = "idle"

\* downloadHandler has its response: lines 194 to 208
RdInit ==
    /\ contentLength \in ContentLengthInputs
    /\ contentRead = 0
    /\ lastContentRead = 0
    /\ timeCounter = 1
    /\ currentTime = 0
    /\ bufferRead = 0
    /\ readErr = "nil"
    /\ samples = <<>>
    /\ reads = 0
    /\ seen = {}
    /\ rdPc = "for"

\* for contentLength != contentRead { currentTime := time.Now(); the sample
\* of a finished time slice; the break on the deadline
readLoopHead ==
    /\ rdPc = "for"
    /\ IF contentLength = contentRead
       THEN /\ rdPc' = "return"
            /\ UNCHANGED <<currentTime, timeCounter, samples, lastContentRead, seen>>
       ELSE \E d \in TickInputs :
              LET now == currentTime + d
                  slice == now > SliceEnd(timeCounter)
                  late == now > Timeout
              IN  /\ currentTime' = now
                  /\ timeCounter' = IF slice THEN timeCounter + 1 ELSE timeCounter
                  /\ samples' = IF slice
                                THEN Append(samples,
                                            SliceSample(contentRead - lastContentRead))
                                ELSE samples
                  /\ lastContentRead' = IF slice THEN contentRead ELSE lastContentRead
                  /\ seen' = IF late THEN seen \cup {"deadline"} ELSE seen
                  /\ rdPc' = IF late THEN "return" ELSE "read"
    /\ UNCHANGED <<contentLength, contentRead, bufferRead, readErr, reads>>
    /\ UNCHANGED <<pingVars, lossVars, filterVars, dlVars, ipVars, cfgVars>>

\* bufferRead, err := response.Body.Read(buffer)
readLoopRead ==
    /\ rdPc = "read"
    /\ reads < MaxReads
    /\ \E o \in ReadOutcomes(contentLength, contentRead) :
          /\ bufferRead' = o.n
          /\ readErr' = o.err
          /\ seen' = IF o.err = "nil" THEN seen ELSE seen \cup {o.err}
    /\ reads' = reads + 1
    /\ rdPc' = "after"
    /\ UNCHANGED <<contentLength, contentRead, lastContentRead, timeCounter,
                   currentTime, samples>>
    /\ UNCHANGED <<pingVars, lossVars, filterVars, dlVars, ipVars, cfgVars>>

\* the rest of the iteration, with io.EOF handled like no error
readLoopAfterIgnoreEOF ==
    /\ rdPc = "after"
    /\ IF readErr = "error"
       THEN /\ rdPc' = "return"
            /\ UNCHANGED <<samples, contentRead>>
       ELSE /\ contentRead' = contentRead + bufferRead
            /\ rdPc' = "for"
            /\ UNCHANGED samples
    /\ UNCHANGED <<contentLength, lastContentRead, timeCounter, currentTime,
                   bufferRead, readErr, reads, seen>>
    /\ UNCHANGED <<pingVars, lossVars, filterVars, dlVars, ipVars, cfgVars>>

\* if err != nil { ... }; contentRead += int64(bufferRead)
readLoopAfter ==
    /\ rdPc = "after"
    /\ IF readErr = "error" \/ (readErr = "EOF" /\ contentLength = -1)
       THEN /\ rdPc' = "return"
            /\ UNCHANGED <<samples, contentRead>>
       ELSE /\ samples' =
                 IF readErr = "EOF"
                 THEN Append(samples,
                             LastSample(contentRead - lastContentRead,
                                        currentTime - SliceEnd(timeCounter - 1)))
                 ELSE samples
            /\ contentRead' = contentRead + bufferRead
            /\ rdPc' = "for"
    /\ UNCHANGED <<contentLength, lastContentRead, timeCounter, currentTime,
                   bufferRead, readErr, reads, seen>>
    /\ UNCHANGED <<pingVars, lossVars, filterVars, dlVars, ipVars, cfgVars>>

----------------------------------------------------------------------------
(* task/ip.go: texts, addresses and masks *)

\* A text is a sequence of characters; an address or a mask is a sequence of
\* bytes, which Go indexes from 0.

HexDigits == <<"0", "1", "2", "3", "4", "5", "6", "7", "8", "9",
               "a", "b", "c", "d", "e", "f">>

DecDigits == {HexDigits[i] : i \in 1..10}

HexVal(c) == (CHOOSE i \in DOMAIN HexDigits : HexDigits[i] = c) - 1

Nil == <<>>

\* strings.IndexByte, counted from 1: 0 when c is not in s
IndexByte(s, c) ==
    IF \E i \in DOMAIN s : s[i] = c
    THEN CHOOSE i \in DOMAIN s : s[i] = c /\ \A j \in 1..(i - 1) : s[j] # c
    ELSE 0

\* strings.Split(s, c) for a separator of one character
RECURSIVE Split(_, _)
Split(s, c) ==
    LET i == IndexByte(s, c)
    IN  IF i = 0 THEN <<s>>
        ELSE <<SubSeq(s, 1, i - 1)>> \o Split(SubSeq(s, i + 1, Len(s)), c)

\* strings.TrimSpace
RECURSIVE TrimSpace(_)
TrimSpace(s) ==
    IF s = <<>> THEN s
    ELSE IF Head(s) = " " THEN TrimSpace(Tail(s))
    ELSE IF s[Len(s)] = " " THEN TrimSpace(SubSeq(s, 1, Len(s) - 1))
    ELSE s

\* the value of a text of digits in base b
RECURSIVE Value(_, _)
Value(s, b) ==
    IF s = <<>> THEN 0 ELSE Value(SubSeq(s, 1, Len(s) - 1), b) * b + HexVal(s[Len(s)])

\* the decimal text of a number
RECURSIVE Dec(_)
Dec(n) == IF n < 10 THEN <<HexDigits[n + 1]>> ELSE Dec(n \div 10) \o <<HexDigits[(n % 10) + 1]>>

\* a & b and a ^ b on bytes
RECURSIVE BitAnd(_, _)
BitAnd(a, b) ==
    IF a = 0 \/ b = 0 THEN 0 ELSE (a % 2) * (b % 2) + 2 * BitAnd(a \div 2, b \div 2)

RECURSIVE BitXor(_, _)
BitXor(a, b) ==
    IF a = 0 /\ b = 0 THEN 0 ELSE ((a + b) % 2) + 2 * BitXor(a \div 2, b \div 2)

\* net.IPv4(a, b, c, d): the 16-byte form of an IPv4 address
v4InV6Prefix == <<0, 0, 0, 0, 0, 0, 0, 0, 0, 0, 255, 255>>

IPv4(a, b, c, d) == v4InV6Prefix \o <<a, b, c, d>>

\* IP.To4: the 4-byte form of an IPv4 address, Nil for another address
To4(ip) ==
    IF Len(ip) = 4 THEN ip
    ELSE IF Len(ip) = 16 /\ SubSeq(ip, 1, 12) = v4InV6Prefix THEN SubSeq(ip, 13, 16)
    ELSE Nil

\* net.CIDRMask(ones, bits)
CIDRMask(ones, bits) ==
    [i \in 1..(bits \div 8) |->
        LET k == ones - 8 * (i - 1)
        IN  IF k >= 8 THEN 255 ELSE IF k <= 0 THEN 0 ELSE 256 - 2^(8 - k)]

\* IP.Mask(mask)
MaskIP(ip, mask) ==
    LET x == IF Len(mask) = 4 /\ Len(ip) = 16 /\ SubSeq(ip, 1, 12) = v4InV6Prefix
             THEN SubSeq(ip, 13, 16) ELSE ip
    IN  IF Len(x) # Len(mask) THEN Nil
        ELSE [i \in DOMAIN x |-> BitAnd(x[i], mask[i])]

\* IPNet.Contains(ip)
Contains(n, ip) ==
    LET nn == IF To4(n.IP) # Nil THEN To4(n.IP) ELSE n.IP
        mm == IF Len(n.Mask) = 16 /\ Len(nn) = 4
                 /\ \A i \in 1..12 : n.Mask[i] = 255
              THEN SubSeq(n.Mask, 13, 16) ELSE n.Mask
        x == IF To4(ip) # Nil THEN To4(ip) ELSE ip
    IN  /\ Len(x) = Len(nn)
        /\ Len(mm) = Len(nn)
        /\ \A i \in DOMAIN x : BitAnd(nn[i], mm[i]) = BitAnd(x[i], mm[i])

\* the dotted-decimal form: four fields of one to three digits, none above
\* 255, none with a leading zero
parseIPv4(s) ==
    LET f == Split(s, ".")
        field(x) == /\ Len(x) \in 1..3
                    /\ \A i \in DOMAIN x : x[i] \in DecDigits
                    /\ Len(x) > 1 => x[1] # "0"
                    /\ Value(x, 10) <= 255
    IN  IF Len(f) = 4 /\ \A i \in 1..4 : field(f[i])
        THEN IPv4(Value(f[1], 10), Value(f[2], 10), Value(f[3], 10), Value(f[4], 10))
        ELSE Nil

\* the groups of a colon-separated text, two bytes each; Nil if one is not
\* one to four hexadecimal digits
RECURSIVE Groups(_)
Groups(f) ==
    IF f = <<>> THEN <<>>
    ELSE LET g == Head(f)
             rest == Groups(Tail(f))
         IN  IF /\ Len(g) \in 1..4
                /\ \A i \in DOMAIN g : g[i] \in {HexDigits[k] : k \in DOMAIN HexDigits}
                /\ (Tail(f) = <<>> \/ rest # Nil)
             THEN <<Value(g, 16) \div 256, Value(g, 16) % 256>> \o rest
             ELSE Nil

GroupsOf(s) == IF s = <<>> THEN <<>> ELSE Groups(Split(s, ":"))

\* the place of "::" in s, counted from 1: 0 when there is none
Ellipsis(s) ==
    IF \E i \in 1..(Len(s) - 1) : s[i] = ":" /\ s[i + 1] = ":"
    THEN CHOOSE i \in 1..(Len(s) - 1) :
            /\ s[i] = ":" /\ s[i + 1] = ":"
            /\ \A j \in 1..(i - 1) : ~(s[j] = ":" /\ s[j + 1] = ":")
    ELSE 0

\* the hexadecimal form: eight groups, or fewer around one "::"
parseIPv6(s) ==
    LET e == Ellipsis(s)
        left == IF e = 0 THEN s ELSE SubSeq(s, 1, e - 1)
        right == IF e = 0 THEN <<>> ELSE SubSeq(s, e + 2, Len(s))
        lg == GroupsOf(left)
        rg == GroupsOf(right)
        bad(t, g) == t # <<>> /\ g = Nil
    IN  IF bad(left, lg) \/ bad(right, rg) THEN Nil
        ELSE IF e = 0 THEN (IF Len(lg) = 16 THEN lg ELSE Nil)
        ELSE IF Len(lg) + Len(rg) >= 16 THEN Nil
        ELSE lg \o [i \in 1..(16 - Len(lg) - Len(rg)) |-> 0] \o rg

\* net.ParseCIDR(s): the address as written, in 16 bytes, and the network
\* (the masked address and the mask); ok is FALSE for a text it rejects
ParseCIDR(s) ==
    LET i == IndexByte(s, "/")
        addr == SubSeq(s, 1, i - 1)
        mask == SubSeq(s, i + 1, Len(s))
        v4 == parseIPv4(addr)
        ip == IF v4 # Nil THEN v4 ELSE parseIPv6(addr)
        bits == IF v4 # Nil THEN 32 ELSE 128
        digits == mask # <<>> /\ \A k \in DOMAIN mask : mask[k] \in DecDigits
        n == IF digits THEN Value(mask, 10) ELSE -1
    IN  IF i = 0 \/ ip = Nil \/ n < 0 \/ n > bits
        THEN [ok |-> FALSE, IP |-> Nil, Net |-> [IP |-> Nil, Mask |-> Nil]]
        ELSE [ok |-> TRUE, IP |-> ip,
              Net |-> [IP |-> MaskIP(ip, CIDRMask(n, bits)), Mask |-> CIDRMask(n, bits)]]

----------------------------------------------------------------------------
(* task/ip.go: loadIPRanges *)

MaxCandidates6 == 2
MaxTurns4 == 4

Slash32 == <<"/", "3", "2">>
Slash128 == <<"/", "1", "2", "8">>

\* Range specifications: dotted-decimal IPv4 and hexadecimal IPv6 addresses,
\* bare or with a prefix length

V4AddrInputs == {<<10, 0, 0, 0>>, <<10, 0, 1, 5>>, <<255, 255, 255, 255>>}
V4PrefixInputs == {0, 22, 23, 24, 25, 30, 31, 32, 33}

DottedText(a) == Dec(a[1]) \o <<".">> \o Dec(a[2]) \o <<".">> \o Dec(a[3]) \o <<".">> \o Dec(a[4])

V4TextInputs ==
    {DottedText(a) : a \in V4AddrInputs}
    \cup {DottedText(a) \o <<"/">> \o Dec(p) : a \in V4AddrInputs, p \in V4PrefixInputs}

\* 2606:4700:: and 2606:4700::ff:0
V6AddrInputs ==
    {<<"2", "6", "0", "6", ":", "4", "7", "0", "0", ":", ":">>,
     <<"2", "6", "0", "6", ":", "4", "7", "0", "0", ":", ":", "f", "f", ":", "0">>}
V6PrefixInputs == {112, 120, 128}

V6TextInputs ==
    V6AddrInputs \cup {a \o <<"/">> \o Dec(p) : a \in V6AddrInputs, p \in V6PrefixInputs}

RangeInputs == V4TextInputs \cup V6TextInputs

\* IPText: one range specification, alone or among blanks and empty fields
IPTextInputs == RangeInputs \cup {<<" ">> \o t \o <<",", " ">> : t \in RangeInputs}

isIPv4(ip) == \E i \in DOMAIN ip : ip[i] = "."

\* what rand.Intn(n) can return, for n > 0: some of 0..n-1
Intn(n) == {k \in {0, 1, n \div 2, n - 1} : k >= 0 /\ k < n}

\* randIPEndWith with a draw that can reach num itself
randIPEndWithInclusive(num) == IF num = 0 THEN {0} ELSE Intn(num + 1)

randIPEndWith(num) == IF num = 0 THEN {0} ELSE Intn(num)

newIPRanges ==
    [ips |-> <<>>, mask |-> <<>>, firstIP |-> Nil, ipNet |-> [IP |-> Nil, Mask |-> Nil]]

\* fixIP with the IPv4 mask for every bare address
fixIPAlways32(ip) ==
    LET i == IndexByte(ip, "/")
    IN  IF i = 0 THEN [ip |-> ip \o Slash32, mask |-> Slash32]
        ELSE [ip |-> ip, mask |-> SubSeq(ip, i, Len(ip))]

\* IPRanges.fixIP(ip): the text it returns and the mask it records
fixIP(ip) ==
    LET i == IndexByte(ip, "/")
        suffix == IF isIPv4(ip) THEN Slash32 ELSE Slash128
    IN  IF i = 0 THEN [ip |-> ip \o suffix, mask |-> suffix]
        ELSE [ip |-> ip, mask |-> SubSeq(ip, i, Len(ip))]

appendIP(r, ip) == [r EXCEPT !.ips = Append(@, ip)]

appendIPv4(r, d) == appendIP(r, IPv4(r.firstIP[13], r.firstIP[14], r.firstIP[15], d))

\* IPMask.String(): two hexadecimal digits a byte
HexText(mk) ==
    IF mk = <<>> THEN <<>>
    ELSE <<HexDigits[(mk[1] \div 16) + 1], HexDigits[(mk[1] % 16) + 1]>>
         \o (IF Len(mk) = 1 THEN <<>>
             ELSE <<HexDigits[(mk[2] \div 16) + 1], HexDigits[(mk[2] % 16) + 1]>>
                  \o (IF Len(mk) = 2 THEN <<>>
                      ELSE <<HexDigits[(mk[3] \div 16) + 1], HexDigits[(mk[3] % 16) + 1]>>
                           \o (IF Len(mk) = 3 THEN <<>>
                               ELSE <<HexDigits[(mk[4] \div 16) + 1],
                                      HexDigits[(mk[4] % 16) + 1]>>)))

\* strconv.ParseInt(s, 16, 32): a value above the int32 range is cut to it
ParseInt32(s) ==
    IF Len(s) >= 8 /\ HexVal(s[Len(s) - 7]) >= 8 THEN 2147483647 ELSE Value(s, 16)

\* IPRanges.getIPRange(); m[i] ^= v is out of range for a mask of 16 bytes
getIPRange(r) ==
    LET inv == [i \in 1..4 |-> BitXor(255, r.ipNet.Mask[i])]
        total == ParseInt32(HexText(inv))
    IN  [panic |-> Len(r.ipNet.Mask) > 4,
         minIP |-> BitAnd(r.firstIP[16], r.ipNet.Mask[4]),
         hosts |-> IF total > 255 THEN 255 ELSE total]

\* r.firstIP[14]++ with its carries
NextPrefix(ip) ==
    LET c == (ip[15] + 1) % 256
        b == IF c = 0 THEN (ip[14] + 1) % 256 ELSE ip[14]
        a == IF c = 0 /\ b = 0 THEN (ip[13] + 1) % 256 ELSE ip[13]
    IN  [ip EXCEPT ![13] = a, ![14] = b, ![15] = c]

\* the inner loop of the exhaustive mode: appendIPv4(byte(i) + lo) for i = 0..n
appendAll(r, lo, n) ==
    [r EXCEPT !.ips = @ \o [k \in 1..(n + 1) |->
        IPv4(r.firstIP[13], r.firstIP[14], r.firstIP[15], (k - 1 + lo) % 256)]]

\* the turns the loop of chooseIPv4 has made: one candidate a turn in the
\* sampled mode, hosts + 1 candidates a turn in the exhaustive mode
Turns(r) == IF TestAll THEN Len(r.ips) \div (hosts + 1) ELSE Len(r.ips)

\* the climb of chooseIPv6 from byte i down: the values r.firstIP can end with
RECURSIVE Climb(_, _)
Climb(ip, i) ==
    UNION {LET v == (ip[i + 1] + x) % 256
               next == [ip EXCEPT ![i + 1] = v]
           IN  IF v >= ip[i + 1] \/ i = 0 THEN {next} ELSE Climb(next, i - 1) :
           x \in randIPEndWith(255)}

IpIdle ==
    /\ TestAll = FALSE
    /\ IPText = <<>>
    /\ IPs = <<>>
    /\ ipIdx = 0
    /\ ranges = newIPRanges
    /\ minIP = 0
    /\ hosts = 0
    /\ ipPc = "idle"

IpInit ==
    /\ TestAll \in BOOLEAN
    /\ IPText \in IPTextInputs
    /\ IPs = <<>>
    /\ ipIdx = 0
    /\ ranges = newIPRanges
    /\ minIP = 0
    /\ hosts = 0
    /\ ipPc = "load"

\* loadIPRanges with IPText set: newIPRanges and strings.Split
loadIPRanges ==
    /\ ipPc = "load"
    /\ IPText # <<>>
    /\ ranges' = newIPRanges
    /\ IPs' = Split(IPText, ",")
    /\ ipIdx' = 1
    /\ ipPc' = "next"
    /\ UNCHANGED <<TestAll, IPText, minIP, hosts>>
    /\ UNCHANGED <<pingVars, lossVars, filterVars, dlVars, cfgVars, readVars>>

\* one turn of the range loop up to the choice of the addresses: the field is
\* trimmed, an empty one is skipped, parseCIDR stops the program on a text
\* net.ParseCIDR rejects; after the last field loadIPRanges returns
loadIPRangesNext ==
    /\ ipPc = "next"
    /\ IF ipIdx > Len(IPs)
       THEN /\ ipPc' = "done"
            /\ UNCHANGED <<ranges, ipIdx>>
       ELSE LET IP == TrimSpace(IPs[ipIdx])
                fixed == fixIP(IP)
                parsed == ParseCIDR(fixed.ip)
            IN  IF IP = <<>>
                THEN /\ ipIdx' = ipIdx + 1
                     /\ UNCHANGED <<ranges, ipPc>>
                ELSE IF ~parsed.ok
                THEN /\ ranges' = [ranges EXCEPT !.mask = fixed.mask]
                     /\ ipPc' = "fatal"
                     /\ UNCHANGED ipIdx
                ELSE /\ ranges' = [ranges EXCEPT !.mask = fixed.mask,
                                                 !.firstIP = parsed.IP,
                                                 !.ipNet = parsed.Net]
                     /\ ipPc' = IF isIPv4(IP) THEN "chooseIPv4" ELSE "chooseIPv6"
                     /\ UNCHANGED ipIdx
    /\ UNCHANGED <<TestAll, IPText, IPs, minIP, hosts>>
    /\ UNCHANGED <<pingVars, lossVars, filterVars, dlVars, cfgVars, readVars>>

\* chooseIPv4 up to its loop
chooseIPv4 ==
    /\ ipPc = "chooseIPv4"
    /\ IF ranges.mask = Slash32
       THEN /\ ranges' = appendIP(ranges, ranges.firstIP)
            /\ ipIdx' = ipIdx + 1
            /\ ipPc' = "next"
            /\ UNCHANGED <<minIP, hosts>>
       ELSE IF getIPRange(ranges).panic
       THEN /\ ipPc' = "panic"
            /\ UNCHANGED <<ranges, ipIdx, minIP, hosts>>
       ELSE /\ minIP' = getIPRange(ranges).minIP
            /\ hosts' = getIPRange(ranges).hosts
            /\ ipPc' = "loop4"
            /\ UNCHANGED <<ranges, ipIdx>>
    /\ UNCHANGED <<TestAll, IPText, IPs>>
    /\ UNCHANGED <<pingVars, lossVars, filterVars, dlVars, cfgVars, readVars>>

\* the turn of the loop of chooseIPv4 that steps the last octet, not the third
chooseIPv4LoopNoStep ==
    /\ ipPc = "loop4"
    /\ IF ~Contains(ranges.ipNet, ranges.firstIP)
       THEN /\ ipIdx' = ipIdx + 1
            /\ ipPc' = "next"
            /\ UNCHANGED ranges
       ELSE /\ Turns(ranges) < MaxTurns4
            /\ \E x \in randIPEndWith(hosts) :
                 LET r == IF TestAll
                          THEN appendAll(ranges, minIP, hosts)
                          ELSE appendIPv4(ranges, (minIP + x) % 256)
                 IN  ranges' = [r EXCEPT !.firstIP =
                                   IF @[16] = 255 THEN NextPrefix(@)
                                   ELSE [@ EXCEPT ![16] = @ + 1]]
            /\ UNCHANGED <<ipIdx, ipPc>>
    /\ UNCHANGED <<TestAll, IPText, IPs, minIP, hosts>>
    /\ UNCHANGED <<pingVars, lossVars, filterVars, dlVars, cfgVars, readVars>>

\* one turn of the loop of chooseIPv4, or its end
chooseIPv4Loop ==
    /\ ipPc = "loop4"
    /\ IF ~Contains(ranges.ipNet, ranges.firstIP)
       THEN /\ ipIdx' = ipIdx + 1
            /\ ipPc' = "next"
            /\ UNCHANGED ranges
       ELSE /\ Turns(ranges) < MaxTurns4
            /\ \E x \in randIPEndWith(hosts) :
                 LET r == IF TestAll
                          THEN appendAll(ranges, minIP, hosts)
                          ELSE appendIPv4(ranges, (minIP + x) % 256)
                 IN  ranges' = [r EXCEPT !.firstIP = NextPrefix(@)]
            /\ UNCHANGED <<ipIdx, ipPc>>
    /\ UNCHANGED <<TestAll, IPText, IPs, minIP, hosts>>
    /\ UNCHANGED <<pingVars, lossVars, filterVars, dlVars, cfgVars, readVars>>

\* chooseIPv6 without the case of the single address
chooseIPv6AlwaysRandom ==
    /\ ipPc = "chooseIPv6"
    /\ ipPc' = "loop6"
    /\ UNCHANGED <<ranges, ipIdx>>
    /\ UNCHANGED <<TestAll, IPText, IPs, minIP, hosts>>
    /\ UNCHANGED <<pingVars, lossVars, filterVars, dlVars, cfgVars, readVars>>

\* chooseIPv6 up to its loop
chooseIPv6 ==
    /\ ipPc = "chooseIPv6"
    /\ IF ranges.mask = Slash128
       THEN /\ ranges' = appendIP(ranges, ranges.firstIP)
            /\ ipIdx' = ipIdx + 1
            /\ ipPc' = "next"
       ELSE /\ ipPc' = "loop6"
            /\ UNCHANGED <<ranges, ipIdx>>
    /\ UNCHANGED <<TestAll, IPText, IPs, minIP, hosts>>
    /\ UNCHANGED <<pingVars, lossVars, filterVars, dlVars, cfgVars, readVars>>

\* one turn of the loop of chooseIPv6, or its end
chooseIPv6Loop ==
    /\ ipPc = "loop6"
    /\ IF ~Contains(ranges.ipNet, ranges.firstIP)
       THEN /\ ipIdx' = ipIdx + 1
            /\ ipPc' = "next"
            /\ UNCHANGED ranges
       ELSE /\ Len(ranges.ips) < MaxCandidates6
            /\ \E x \in randIPEndWith(255), y \in randIPEndWith(255) :
                 LET targetIP == [ranges.firstIP EXCEPT ![16] = x, ![15] = y]
                 IN  \E ip \in Climb(targetIP, 13) :
                        ranges' = [ranges EXCEPT !.ips = Append(@, targetIP),
                                                 !.firstIP = ip]
            /\ UNCHANGED <<ipIdx, ipPc>>
    /\ UNCHANGED <<TestAll, IPText, IPs, minIP, hosts>>
    /\ UNCHANGED <<pingVars, lossVars, filterVars, dlVars, cfgVars, readVars>>

----------------------------------------------------------------------------
(* task/tcping.go, task/download.go: the checks of the configuration,
   called on their own, on any values the flags can carry *)

AnyRoutines == {-1, 0, 1, 500, maxRoutine, maxRoutine + 1}
AnyTCPPort == {-1, 0, 1, 8443, 65534, 65535, 65536}
AnyPingTimes == {-1, 0, 1, 6}
AnyURL == {"", defaultURL, "https://test.com"}
AnyTimeout == {-1, 0, 5000}
AnyTestCount == {-1, 0, 5}
AnyMinSpeed == {-1, 0, 1}

CfgIdle == checked = {}

CfgInit ==
    /\ Routines \in AnyRoutines
    /\ TCPPort \in AnyTCPPort
    /\ PingTimes \in AnyPingTimes
    /\ Httping = FALSE
    /\ ips = <<>>
    /\ csv = <<>>
    /\ control = <<>>
    /\ controlCap = 0
    /\ wg = 0
    /\ m = 0
    /\ runPc = "idle"
    /\ runIdx = 0
    /\ unit = <<>>
    /\ nowAble = 0
    /\ result = <<>>
    /\ URL \in AnyURL
    /\ Timeout \in AnyTimeout
    /\ Disable = FALSE
    /\ TestCount \in AnyTestCount
    /\ MinSpeed \in AnyMinSpeed
    /\ Debug = FALSE
    /\ ipSet = <<>>
    /\ speedSet = <<>>
    /\ aliased = FALSE
    /\ testNum = 0
    /\ dlI = 0
    /\ dlPc = "idle"
    /\ active = {}
    /\ started = <<>>
    /\ response = NoResponse
    /\ checked = {}

checkPingDefault ==
    /\ runPc = "idle"
    /\ Routines' = checkRoutines(Routines)
    /\ TCPPort' = checkTCPPort(TCPPort)
    /\ PingTimes' = checkPingTimes(PingTimes)
    /\ checked' = checked \cup {"ping"}
    /\ UNCHANGED <<Httping, ips, csv, control, controlCap, wg, m, runPc, runIdx,
                   unit, nowAble, result>>
    /\ UNCHANGED <<lossVars, filterVars, dlVars, ipVars, readVars>>

checkDownloadDefault ==
    /\ dlPc = "idle"
    /\ URL' = checkURL(URL)
    /\ Timeout' = checkTimeout(Timeout)
    /\ TestCount' = checkTestCount(TestCount)
    /\ MinSpeed' = checkMinSpeed(MinSpeed)
    /\ checked' = checked \cup {"download"}
    /\ UNCHANGED <<Disable, Debug, ipSet, speedSet, aliased, testNum, dlI, dlPc,
                   active, started, response>>
    /\ UNCHANGED <<pingVars, lossVars, filterVars, ipVars, readVars>>

----------------------------------------------------------------------------
(* Specifications *)

PingIdle ==
    /\ Routines = defaultRoutines
    /\ TCPPort = defaultPort
    /\ PingTimes = defaultPingTimes
    /\ Httping = FALSE
    /\ ips = <<>>
    /\ csv = <<>>
    /\ control = <<>>
    /\ controlCap = 0
    /\ wg = 0
    /\ m = 0
    /\ runPc = "idle"
    /\ runIdx = 0
    /\ unit = <<>>
    /\ nowAble = 0
    /\ result = <<>>

Init == PingInit /\ LossIdle /\ FilterIdle /\ DlIdle /\ IpIdle /\ CfgIdle /\ RdIdle

Next ==
    \/ NewPing
    \/ RunStart
    \/ RunAdd
    \/ RunSend
    \/ RunWait
    \/ RunSort
    \/ \E u \in DOMAIN unit : checkConnection(u)
    \/ \E u \in DOMAIN unit : tcpingHandlerReadLen(u)
    \/ \E u \in DOMAIN unit : appendIPDataLock(u)
    \/ \E u \in DOMAIN unit : appendIPDataRead(u)
    \/ \E u \in DOMAIN unit : appendIPDataWrite(u)
    \/ \E u \in DOMAIN unit : startRelease(u)
    \/ \E u \in DOMAIN unit : startDone(u)

Spec == Init /\ [][Next]_vars

\* the prober under fair scheduling: the goroutine of Run and the goroutine
\* of every started unit take their next step when it stays possible, and
\* every probe returns
RunStep == NewPing \/ RunStart \/ RunAdd \/ RunSend \/ RunWait \/ RunSort

StartStep(u) ==
    /\ u \in DOMAIN unit
    /\ \/ checkConnection(u)
       \/ tcpingHandlerReadLen(u)
       \/ appendIPDataLock(u)
       \/ appendIPDataRead(u)
       \/ appendIPDataWrite(u)
       \/ startRelease(u)
       \/ startDone(u)

Fairness == WF_vars(RunStep) /\ \A u \in 1..MaxIPs : WF_vars(StartStep(u))

\* the port, the number of probes of a candidate and the probe mode have
\* no part in the scheduling: one value of each
InitFair == Init /\ TCPPort = defaultPort /\ PingTimes = 1 /\ ~Httping

SpecFair == InitFair /\ [][Next]_vars /\ Fairness

\* reading and changing one record
InitLossRate == PingIdle /\ LossInit /\ FilterIdle /\ DlIdle /\ IpIdle /\ CfgIdle /\ RdIdle

NextLossRate ==
    \/ CallGetLossRate
    \/ SetCounts

SpecLossRate == InitLossRate /\ [][NextLossRate]_vars

\* the ranking/filtering pipeline on the sets the prober can hand over
InitFilter == PingIdle /\ LossIdle /\ FilterInit /\ DlIdle /\ IpIdle /\ CfgIdle /\ RdIdle

NextFilter ==
    \/ DoSort
    \/ DoFilterDelay
    \/ DoFilterLossRate

SpecFilter == InitFilter /\ [][NextFilter]_vars

\* the download measurement
InitDownload == PingIdle /\ LossIdle /\ FilterIdle /\ DlInit /\ IpIdle /\ CfgIdle /\ RdIdle

NextDownload ==
    \/ DlStart
    \/ DlBegin
    \/ DlFinish
    \/ DlReturn

SpecDownload == InitDownload /\ [][NextDownload]_vars

\* the expansion of the range specifications
InitIP == PingIdle /\ LossIdle /\ FilterIdle /\ DlIdle /\ IpInit /\ CfgIdle /\ RdIdle

NextIP ==
    \/ loadIPRanges
    \/ loadIPRangesNext
    \/ chooseIPv4
    \/ chooseIPv4Loop
    \/ chooseIPv6
    \/ chooseIPv6Loop

SpecIP == InitIP /\ [][NextIP]_vars

\* the checks of the configuration, in any order and any number of times
InitConfig == CfgInit /\ LossIdle /\ FilterIdle /\ IpIdle /\ RdIdle

NextConfig ==
    \/ checkPingDefault
    \/ checkDownloadDefault

SpecConfig == InitConfig /\ [][NextConfig]_vars

\* the read loop of downloadHandler on one response
InitRead ==
    PingIdle /\ LossIdle /\ FilterIdle /\ DlIdle /\ IpIdle /\ CfgIdle /\ RdInit

NextRead ==
    \/ readLoopHead
    \/ readLoopRead
    \/ readLoopAfter

SpecRead == InitRead /\ [][NextRead]_vars

----------------------------------------------------------------------------
(* Properties of the prober *)

\* units whose slot on p.control is taken and not yet given back
InFlight ==
    {u \in DOMAIN unit :
        unit[u].pc \in {"check", "readLen", "lock", "appendRead", "appendWrite",
                        "release"}}

\* C1: during Ping.Run the number of units that were dispatched and have not
\* yet released their slot never exceeds the concurrency limit Routines.
C1_InFlightBounded ==
    runPc # "new" => Cardinality(InFlight) <= Routines

\* the dispatcher is blocked on a full channel while Routines units run
C1_Witness ==
    /\ runPc = "send"
    /\ Cardinality(InFlight) = Routines
    /\ Len(control) = controlCap

\* C2: Ping.Run sorts and returns only after every dispatched unit has
\* completed: no unit is in flight, every slot taken has been released, and
\* the accumulator does not grow after the return.
C2_BarrierBeforeSort ==
    runPc \in {"sort", "returned"} =>
        /\ \A u \in DOMAIN unit : unit[u].pc = "done"
        /\ control = <<>>
        /\ wg = 0
        /\ m = 0
        /\ runPc = "returned" => result = csv

C2_Witness ==
    /\ runPc = "returned"
    /\ Len(ips) >= 2
    /\ Len(result) >= 1

\* C3: a unit reads or writes the accumulator (its length included) only
\* while it holds the mutex, so that no other unit touches p.csv while one
\* unit is appending.
C3_AccumulatorOnlyUnderMutex ==
    \A u, v \in DOMAIN unit :
        (/\ u # v
         /\ unit[v].pc \in {"appendRead", "appendWrite"}
         /\ unit[u].pc \in {"readLen", "appendRead", "appendWrite"})
        => m = u

\* C4: when Ping.Run returns the result holds exactly one record for each
\* candidate with at least one successful probe and none for the others;
\* each record has Sended = PingTimes, Received = the success count and
\* Delay = the sum of the successful delays divided by that count; the
\* division is never reached with a zero count.
C4_OneRecordPerReachable ==
    /\ \A u \in DOMAIN unit :
          unit[u].pc \in {"lock", "appendRead", "appendWrite"} => unit[u].recv # 0
    /\ runPc = "returned" =>
          /\ \A u \in DOMAIN unit :
                Cardinality({i \in DOMAIN result : result[i].IP = ips[u]})
                    = IF unit[u].succ >= 1 THEN 1 ELSE 0
          /\ \A i \in DOMAIN result :
                \E u \in DOMAIN unit :
                   /\ ips[u] = result[i].IP
                   /\ result[i].Sended = PingTimes
                   /\ result[i].Received = unit[u].succ
                   /\ result[i].Received \in 1..PingTimes
                   /\ result[i].Delay = unit[u].sum \div unit[u].succ

\* a run with an unreachable candidate and a candidate whose average delay
\* is a truncated quotient
C4_Witness ==
    /\ runPc = "returned"
    /\ \E u, v \in DOMAIN unit :
          /\ unit[u].succ = 0
          /\ unit[v].succ >= 2
          /\ unit[v].sum % unit[v].succ # 0
          /\ \E i \in DOMAIN result : result[i].IP = ips[v]

\* the loss rate of a record from its counts
LossOf(cf) == Frac(cf.Sended - cf.Received, cf.Sended)

DelayOrdered(s) ==
    \A i, j \in DOMAIN s :
        i < j =>
            \/ FracLess(LossOf(s[i]), LossOf(s[j]))
            \/ LossOf(s[i]) = LossOf(s[j]) /\ s[i].Delay <= s[j].Delay

\* C5: the set returned by Ping.Run is delay-ordered: for i < j,
\* loss(i) < loss(j), or loss(i) = loss(j) and delay(i) <= delay(j).
C5_RunReturnsDelayOrdered ==
    runPc = "returned" => DelayOrdered(result)

\* sort.Sort leaves every set of the filter inputs delay-ordered (C5, the
\* sets other than the one Ping.Run returns; holds under SpecFilter)
DelayOrderedAfterSort == fOp = "sort" => DelayOrdered(fIn)

\* two records of equal loss rate and different delay were returned, the
\* candidate dispatched second in front
C5_Witness ==
    /\ runPc = "returned"
    /\ Len(result) = 2
    /\ LossOf(result[1]) = LossOf(result[2])
    /\ result[1].Delay < result[2].Delay
    /\ result[1].IP > result[2].IP

----------------------------------------------------------------------------
(* Properties of the loss rate and of the filters *)

\* C6: getLossRate returns (Sended - Received) / Sended, and once it has
\* returned a value for a record every later call returns that value, even
\* if Sended or Received are changed between the calls.
C6_LossRateStable ==
    [][/\ (lastRate = NoRate /\ lastRate' # NoRate) => lastRate' = LossOf(cfData)
       /\ lastRate # NoRate => lastRate' = lastRate]_vars

\* the records a set holds, without the private loss-rate cache
Visible(s) == [i \in DOMAIN s |-> [s[i] EXCEPT !.lossRate = FracZero]]

\* position of the first record whose delay exceeds hi (Len(s) + 1 if none)
FirstAbove(s, hi) ==
    LET above == {i \in DOMAIN s : s[i].Delay > hi}
    IN  IF above = {} THEN Len(s) + 1
        ELSE CHOOSE i \in above : \A k \in above : i <= k

ValidWindow ==
    /\ InputMinDelay >= minDelay
    /\ InputMaxDelay <= maxDelay
    /\ ~(InputMinDelay = minDelay /\ InputMaxDelay = maxDelay)

\* C7: with a valid non-default window [min, max] FilterDelay keeps, in
\* order, the records with min <= delay <= max that stand before the first
\* record with delay > max, and nothing else.
C7_FilterDelayStopsAtFirstAbove ==
    (fOp = "FilterDelay" /\ ValidWindow) =>
        LET k == FirstAbove(fIn, InputMaxDelay)
            InWindow(r) == r.Delay >= InputMinDelay /\ r.Delay <= InputMaxDelay
        IN  /\ fOut = SelectSeq(SubSeq(fIn, 1, k - 1), InWindow)
            /\ \A i \in DOMAIN fIn :
                  i >= k => \A o \in DOMAIN fOut : fOut[o].IP # fIn[i].IP

\* a record below min is skipped, the next one is above max, and the record
\* behind it, whose delay equals min, is not admitted
C7_Witness ==
    /\ fOp = "FilterDelay"
    /\ ValidWindow
    /\ Len(fIn) = 3
    /\ fIn[1].Delay < InputMinDelay
    /\ fIn[2].Delay > InputMaxDelay
    /\ fIn[3].Delay = InputMinDelay
    /\ fOut = <<>>

\* longest prefix of s whose records all have a loss rate <= c
PrefixWithin(s, c) ==
    LET fine == {n \in 0..Len(s) : \A i \in 1..n : FracLeq(LossOf(s[i]), c)}
    IN  SubSeq(s, 1, CHOOSE n \in fine : \A k \in fine : k <= n)

\* C8: with a ceiling below 1.0 FilterLossRate returns the longest prefix of
\* its input whose records all have a loss rate <= the ceiling; on a
\* delay-ordered input these are exactly the records with a loss rate <=
\* the ceiling, in their order.
C8_FilterLossRatePrefix ==
    (fOp = "FilterLossRate" /\ FracLess(InputMaxLossRate, maxLossRate)) =>
        LET Within(r) == FracLeq(LossOf(r), InputMaxLossRate)
        IN  /\ Visible(fOut) = Visible(PrefixWithin(fIn, InputMaxLossRate))
            /\ DelayOrdered(fIn) =>
                  Visible(fOut) = Visible(SelectSeq(fIn, Within))

\* the sorted set 0%, 25%, 50% under the ceiling 0.25 gives 0%, 25%
C8_Witness ==
    /\ fOp = "FilterLossRate"
    /\ InputMaxLossRate = <<1, 4>>
    /\ Len(fIn) = 3
    /\ DelayOrdered(fIn)
    /\ LossOf(fIn[1]) = <<0, 1>>
    /\ LossOf(fIn[2]) = <<1, 4>>
    /\ LossOf(fIn[3]) = <<1, 2>>
    /\ Len(fOut) = 2

\* C9: with the default configuration the filters are the identity:
\* FilterDelay with the window [0 ms, 9999 ms] and FilterLossRate with the
\* ceiling 1.0 return their input unchanged.
C9_DefaultFiltersIdentity ==
    /\ (/\ fOp = "FilterDelay"
        /\ InputMinDelay = minDelay
        /\ InputMaxDelay = maxDelay) => fOut = fIn
    /\ (fOp = "FilterLossRate" /\ InputMaxLossRate = maxLossRate) => fOut = fIn

\* the default window applied to a set with a delay above 9999 ms
C9_Witness ==
    /\ fOp = "FilterDelay"
    /\ InputMinDelay = minDelay
    /\ InputMaxDelay = maxDelay
    /\ Len(fIn) >= 2
    /\ \E i \in DOMAIN fIn : fIn[i].Delay > maxDelay
    /\ fOut = fIn

----------------------------------------------------------------------------
(* Properties of the download measurement *)

\* measured candidates whose speed reached the threshold
Qualified ==
    {j \in DOMAIN started :
        /\ started[j] \notin active
        /\ ipSet[started[j]].DownloadSpeed >= MinSpeed * 1024 * 1024}

\* C10: with measurement enabled TestDownloadSpeed measures the candidates
\* one at a time in the order of its input, and starts no measurement once
\* TestCount candidates at or above the threshold are collected or the queue
\* is exhausted.
C10_OneAtATimeInOrder ==
    /\ Cardinality(active) <= 1
    /\ \A k \in DOMAIN started : started[k] = k
    /\ dlPc = "download" =>
          /\ active = {started[Len(started)]}
          /\ Len(started) <= testNum
          /\ Cardinality(Qualified) < TestCount
    /\ dlPc \in {"loop", "finish"} => active = {}

\* the run stopped after TestCount candidates reached the threshold, with a
\* slower candidate passed over and a candidate of the queue never measured
C10_Witness ==
    /\ dlPc = "finish"
    /\ ~Disable
    /\ MinSpeed > 0
    /\ Len(started) < testNum
    /\ Cardinality(Qualified) = TestCount
    /\ Cardinality(Qualified) < Len(started)

\* the loop of TestDownloadSpeed is entered, running or over
InLoop == dlPc \in {"loop", "download", "finish"}

Records(s) == {s[i] : i \in DOMAIN s}

\* TestDownloadSpeed returned after its loop, with a minimum speed configured
\* that no candidate of the input reached
NoneReached ==
    /\ dlPc = "done"
    /\ ~Disable
    /\ Len(ipSet) >= 1
    /\ MinSpeed > 0
    /\ \A i \in DOMAIN ipSet : ipSet[i].DownloadSpeed < MinSpeed * 1024 * 1024

\* the returned set holds every record of the input, with the speeds stored
\* by the loop
ReturnsAll ==
    /\ Len(speedSet) = Len(ipSet)
    /\ Records(speedSet) = Records(ipSet)

\* C12 as stated: with a minimum speed greater than 0, if no measured candidate
\* reaches the threshold, TestDownloadSpeed returns all measured candidates
\* with their sub-threshold speeds, not an empty result.
C12_FallbackReturnsAll == NoneReached => ReturnsAll

\* C12 as amended: the fallback is taken when utils.Debug is set; otherwise the
\* result is empty.
C12_FallbackOnlyInDebug ==
    NoneReached => IF Debug THEN ReturnsAll ELSE speedSet = <<>>

\* the fallback returned two measured candidates below the threshold, one of
\* them with a speed above 0
C12_Witness ==
    /\ NoneReached
    /\ Debug
    /\ Len(speedSet) >= 2
    /\ \E i \in DOMAIN speedSet : speedSet[i].DownloadSpeed > 0

\* C13: if Disable is set, TestDownloadSpeed returns its input as the result
\* (the same records in the same order), calls downloadHandler for no
\* candidate and changes no record of the input.
C13_DisabledPassesThrough ==
    [][(dlPc = "start" /\ Disable) =>
          /\ dlPc' = "done"
          /\ speedSet' = ipSet
          /\ ipSet' = ipSet
          /\ started' = <<>>
          /\ active' = {}]_vars

\* a disabled run returned a set of two records, one without a tag, and no
\* download was started
C13_Witness ==
    /\ dlPc = "done"
    /\ Disable
    /\ Len(speedSet) >= 2
    /\ speedSet = ipSet
    /\ started = <<>>
    /\ \E i \in DOMAIN speedSet : speedSet[i].Colo = ""

\* fastest first: no record is slower than a later one
SpeedOrdered(s) ==
    \A i, j \in DOMAIN s : i < j => s[i].DownloadSpeed >= s[j].DownloadSpeed

\* C14: every set TestDownloadSpeed returns is speed-ordered, whichever path
\* produced it: the collected set under a threshold, the whole input without
\* a threshold or on the fallback, the untouched input of a disabled run
\* (whose records carry no throughput yet), the empty set.
C14_ReturnedSetSpeedOrdered == dlPc = "done" => SpeedOrdered(speedSet)

\* under a threshold two candidates were collected slower one first, and
\* returned faster one first
C14_Witness ==
    /\ dlPc = "done"
    /\ ~Disable
    /\ MinSpeed > 0
    /\ ~aliased
    /\ Len(speedSet) >= 2
    /\ \E i, j \in DOMAIN ipSet :
          /\ i < j
          /\ ipSet[i].DownloadSpeed >= MinSpeed * 1024 * 1024
          /\ ipSet[i].DownloadSpeed < ipSet[j].DownloadSpeed
    /\ speedSet[1].DownloadSpeed > speedSet[2].DownloadSpeed

\* the download fails: the request cannot be built, the transport fails, the
\* server answers another status than 200, or it redirects more than
\* maxRedirects times
Failed(r) ==
    \/ r.err = "request"
    \/ r.err = "transport"
    \/ r.err = "" /\ r.status # 200
    \/ r.err = "" /\ r.hops > maxRedirects

\* C15: a failed download of one candidate stores throughput 0 in its record
\* and gives it no tag (its tag stays what it was), changes no other record,
\* and the loop goes on with the next candidate of the queue if there is one.
C15_FailureIsLocal ==
    [][(dlPc = "download" /\ Failed(response)) =>
          /\ ipSet'[dlI].DownloadSpeed = 0
          /\ ipSet'[dlI].Colo = ipSet[dlI].Colo
          /\ \A k \in DOMAIN ipSet : k # dlI => ipSet'[k] = ipSet[k]
          /\ Len(ipSet') = Len(ipSet)
          /\ IF dlI < testNum
             THEN dlPc' = "loop" /\ dlI' = dlI + 1
             ELSE dlPc' = "finish"]_vars

\* after a chain of more than maxRedirects redirects that would have ended in
\* a 200 with a tag, the first candidate has throughput 0 and no tag, and the
\* loop is at the second candidate
C15_Witness ==
    /\ dlPc = "loop"
    /\ dlI = 2
    /\ response.err = ""
    /\ response.hops > maxRedirects
    /\ response.status = 200
    /\ response.colo # ""
    /\ ipSet[1].DownloadSpeed = 0
    /\ ipSet[1].Colo = ""
    /\ ipSet[2].DownloadSpeed = 0

----------------------------------------------------------------------------
(* Properties of the range expander *)

\* the one range specification of IPText
TheRange ==
    LET f == Split(IPText, ",")
    IN  TrimSpace(f[CHOOSE k \in DOMAIN f : TrimSpace(f[k]) # <<>>])

HasMask(t) == \E i \in DOMAIN t : t[i] = "/"

\* the text before the mask and the text of the mask, "/" included
AddrText(t) == IF HasMask(t) THEN SubSeq(t, 1, (CHOOSE i \in DOMAIN t : t[i] = "/") - 1) ELSE t

MaskText(t) == SubSeq(t, Len(AddrText(t)) + 1, Len(t))

\* the text is an IPv4 address, or an IPv4 address and a mask
IsV4Text(t) == parseIPv4(AddrText(t)) # Nil

\* the range specification has been through parseCIDR
Fixed == ipPc \notin {"load", "next"} \/ (ipPc = "next" /\ ranges.mask # <<>>)

\* C16: for a range specification without a mask, fixIP returns the text with
\* /32 appended when it is an IPv4 address and with /128 appended otherwise,
\* and records that mask; a specification with a mask is returned unchanged
\* and its own suffix is recorded.
C16_FixIP ==
    ipPc # "load" =>
        LET t == TheRange
            want == IF HasMask(t) THEN MaskText(t)
                    ELSE IF IsV4Text(t) THEN Slash32 ELSE Slash128
        IN  /\ fixIP(t).ip = AddrText(t) \o want
            /\ fixIP(t).mask = want
            /\ HasMask(t) => fixIP(t).ip = t
            /\ Fixed => ranges.mask = want

\* a bare IPv6 address went through fixIP, which recorded /128
C16_Witness ==
    /\ ipPc = "done"
    /\ ~HasMask(TheRange)
    /\ ~IsV4Text(TheRange)
    /\ ranges.mask = Slash128
    /\ Len(ranges.ips) = 1

\* the address a text denotes, in 16 bytes
AddrOf(t) == IF parseIPv4(AddrText(t)) # Nil THEN parseIPv4(AddrText(t))
             ELSE parseIPv6(AddrText(t))

\* the range is one address: no mask, /32 on an IPv4 address, /128 on an
\* IPv6 address
SingleAddress(t) ==
    \/ ~HasMask(t)
    \/ IsV4Text(t) /\ MaskText(t) = Slash32
    \/ ~IsV4Text(t) /\ MaskText(t) = Slash128

\* C17: a range that is a single address expands to exactly one candidate,
\* that address, in the sampled and in the exhaustive mode alike; no draw of
\* the random source can change it.
C17_SingleAddressIsItself ==
    (ipPc = "done" /\ SingleAddress(TheRange)) =>
        ranges.ips = <<AddrOf(TheRange)>>

\* the exhaustive mode returned the one address of an IPv6 range with /128
C17_Witness ==
    /\ ipPc = "done"
    /\ TestAll
    /\ ~IsV4Text(TheRange)
    /\ MaskText(TheRange) = Slash128
    /\ ranges.ips = <<AddrOf(TheRange)>>
    /\ ranges.ips[1][16] = 0

\* the first three octets of an IPv4 address as a number, and the address as
\* that number and its last octet
Block(ip) == (ip[13] * 256 + ip[14]) * 256 + ip[15]

Addr(ip) == <<Block(ip), ip[16]>>

\* the prefix length of an IPv4 range specification net.ParseCIDR accepts;
\* 32 without a mask
PrefixLen(t) == IF HasMask(t) THEN Value(Tail(MaskText(t)), 10) ELSE 32

ValidV4(t) == IsV4Text(t) /\ PrefixLen(t) <= 32

\* the blocks of 256 addresses the range lies in, and the last octets it
\* holds in each
FirstBlock(t) ==
    IF PrefixLen(t) >= 24 THEN Block(AddrOf(t))
    ELSE Block(AddrOf(t)) - (Block(AddrOf(t)) % 2^(24 - PrefixLen(t)))

LastBlock(t) ==
    IF PrefixLen(t) >= 24 THEN Block(AddrOf(t))
    ELSE FirstBlock(t) + 2^(24 - PrefixLen(t)) - 1

FirstOctet(t) ==
    IF PrefixLen(t) >= 24 THEN AddrOf(t)[16] - (AddrOf(t)[16] % 2^(32 - PrefixLen(t)))
    ELSE 0

LastOctet(t) ==
    IF PrefixLen(t) >= 24 THEN FirstOctet(t) + 2^(32 - PrefixLen(t)) - 1 ELSE 255

\* the addresses of the range
RangeAddrs(t) ==
    {<<b, d>> : b \in FirstBlock(t)..LastBlock(t), d \in FirstOctet(t)..LastOctet(t)}

\* C18 as stated: in the sampled mode the expansion of one IPv4 range
\* specification yields exactly one candidate, whatever the prefix length.
C18_OneCandidatePerRange ==
    (ipPc = "done" /\ ~TestAll /\ ValidV4(TheRange)) => Len(ranges.ips) = 1

\* C18 as amended: in the sampled mode the expansion yields one candidate in
\* each block of 256 addresses (each value of the first three octets) from
\* the block of the written address to the last block of the range, in that
\* order: one candidate when the prefix length is 24 or more.
C18_OneCandidatePerBlock ==
    (ipPc = "done" /\ ~TestAll /\ ValidV4(TheRange)) =>
        LET t == TheRange
            blocks == LastBlock(t) - Block(AddrOf(t)) + 1
        IN  /\ Len(ranges.ips) = blocks
            /\ \A k \in DOMAIN ranges.ips :
                  Block(ranges.ips[k]) = Block(AddrOf(t)) + k - 1
            /\ PrefixLen(t) >= 24 => Len(ranges.ips) = 1

\* the sampled expansion of a /22 written with its first address returned four
\* candidates
C18_Witness ==
    /\ ipPc = "done"
    /\ ~TestAll
    /\ ValidV4(TheRange)
    /\ PrefixLen(TheRange) = 22
    /\ Len(ranges.ips) = 4

\* C19: in the exhaustive mode the expansion of an IPv4 range specification
\* with a mask yields every address of the range exactly once and no other
\* address, for every prefix length and whatever address of the range is
\* written before the mask.
C19_ExhaustiveIsTheRange ==
    (ipPc = "done" /\ TestAll /\ ValidV4(TheRange) /\ HasMask(TheRange)) =>
        LET t == TheRange
        IN  /\ Len(ranges.ips) = Cardinality(RangeAddrs(t))
            /\ {Addr(ranges.ips[k]) : k \in DOMAIN ranges.ips} = RangeAddrs(t)
            /\ \A k \in DOMAIN ranges.ips : To4(ranges.ips[k]) # Nil

----------------------------------------------------------------------------
(* Properties of the checks of the configuration *)

PingChecked == "ping" \in checked

DownloadChecked == "download" \in checked

\* C20: each check resets every out-of-range parameter to its default
\* whatever the other parameters hold (Routines <= 0 to 200; a port <= 0 or
\* >= 65535 to 443; PingTimes <= 0 to 4; an empty URL to the default URL;
\* Timeout <= 0 to 10 s; TestCount <= 0 to 10; MinSpeed <= 0 to 0), leaves
\* every in-range parameter and the other check's parameters unchanged, and
\* applied again changes nothing
C20_ChecksResetIndependently ==
    [][ /\ (~PingChecked /\ PingChecked') =>
              /\ Routines' = IF Routines <= 0 THEN 200 ELSE Routines
              /\ TCPPort' = IF TCPPort <= 0 \/ TCPPort >= 65535
                            THEN 443 ELSE TCPPort
              /\ PingTimes' = IF PingTimes <= 0 THEN 4 ELSE PingTimes
              /\ UNCHANGED <<URL, Timeout, TestCount, MinSpeed>>
        /\ (~DownloadChecked /\ DownloadChecked') =>
              /\ URL' = IF URL = "" THEN "https://cf.xiu2.xyz/url" ELSE URL
              /\ Timeout' = IF Timeout <= 0 THEN 10000 ELSE Timeout
              /\ TestCount' = IF TestCount <= 0 THEN 10 ELSE TestCount
              /\ MinSpeed' = IF MinSpeed <= 0 THEN 0 ELSE MinSpeed
              /\ UNCHANGED <<Routines, TCPPort, PingTimes>>
        /\ PingChecked => UNCHANGED <<Routines, TCPPort, PingTimes>>
        /\ DownloadChecked => UNCHANGED <<URL, Timeout, TestCount, MinSpeed>>
      ]_vars

\* both checks were applied: the port and the test count were reset while
\* the routines, the URL and the timeout kept the values they were given
C20_Witness ==
    /\ PingChecked
    /\ DownloadChecked
    /\ Routines = 500
    /\ TCPPort = 443
    /\ PingTimes = 6
    /\ URL = "https://test.com"
    /\ Timeout = 5000
    /\ TestCount = 10
    /\ MinSpeed = 1

\* C21: after the prober's configuration check the concurrency limit lies in
\* 1..maxRoutine: a value above the maximum is reset like a non-positive one
C21_RoutinesInRange ==
    PingChecked => (Routines >= 1 /\ Routines <= maxRoutine)

----------------------------------------------------------------------------
(* Further properties of the filters *)

SeveralLossRates(s) == \E i, j \in DOMAIN s : LossOf(s[i]) # LossOf(s[j])

\* C22: on a delay-ordered set with several loss-rate groups, under a valid
\* non-default window, FilterDelay returns exactly the records of the set
\* whose delay lies in [min, max], in their order
C22_FilterDelayExactOnOrdered ==
    (/\ fOp = "FilterDelay"
     /\ ValidWindow
     /\ DelayOrdered(fIn)
     /\ SeveralLossRates(fIn)) =>
        LET InWindow(r) == r.Delay >= InputMinDelay /\ r.Delay <= InputMaxDelay
        IN  fOut = SelectSeq(fIn, InWindow)

\* exactly one bound of the configured window is out of range
OnlyMinInvalid == InputMinDelay < minDelay /\ InputMaxDelay <= maxDelay

OnlyMaxInvalid == InputMaxDelay > maxDelay /\ InputMinDelay >= minDelay

\* C24 as stated: when only one bound of the window is out of range,
\* FilterDelay still applies the other, valid bound: no record it returns
\* lies beyond that bound
C24_OtherBoundStillApplied ==
    fOp = "FilterDelay" =>
        /\ OnlyMinInvalid =>
              \A o \in DOMAIN fOut : fOut[o].Delay <= InputMaxDelay
        /\ OnlyMaxInvalid =>
              \A o \in DOMAIN fOut : fOut[o].Delay >= InputMinDelay

\* C24, amended: the two bounds are validated together: when either bound
\* is out of range (min < 0 ms or max > 9999 ms) FilterDelay returns its
\* input unchanged, whatever the other bound is
C24_InvalidBoundDisablesFilter ==
    (fOp = "FilterDelay"
     /\ (InputMinDelay < minDelay \/ InputMaxDelay > maxDelay)) => fOut = fIn

\* min is below 0 ms, max is a valid 200 ms, and a record above 200 ms is
\* returned with the rest of the input
C24_Witness ==
    /\ fOp = "FilterDelay"
    /\ InputMinDelay < minDelay
    /\ InputMaxDelay < maxDelay
    /\ Len(fIn) >= 2
    /\ fIn[1].Delay > InputMaxDelay
    /\ fOut = fIn

----------------------------------------------------------------------------
(* Further properties of the download measurement *)

\* the candidates downloadHandler was called for
Measured(st) == {st[k] : k \in DOMAIN st}

\* C23: TestDownloadSpeed changes its input set only by attaching a
\* throughput to measured records and a tag to measured records whose tag
\* was empty; the records of the input set keep their positions
C23_InputOnlyAnnotated ==
    [][/\ Len(ipSet') = Len(ipSet)
       /\ \A i \in DOMAIN ipSet :
             /\ ipSet'[i].IP = ipSet[i].IP
             /\ ipSet'[i].Sended = ipSet[i].Sended
             /\ ipSet'[i].Received = ipSet[i].Received
             /\ ipSet'[i].Delay = ipSet[i].Delay
             /\ ipSet[i].Colo # "" => ipSet'[i].Colo = ipSet[i].Colo
             /\ ipSet'[i] # ipSet[i] => ipSet[i].IP \in Measured(started)
      ]_vars

----------------------------------------------------------------------------
(* Further properties of the range expander *)

\* C25: every candidate address produced by expanding a range lies inside
\* that range: the network of the range contains it
C25_CandidatesInsideRange ==
    \A k \in DOMAIN ranges.ips : Contains(ranges.ipNet, ranges.ips[k])

\* a turn of the sampled walk of chooseIPv4 is about to draw its offset
SampledTurn ==
    /\ ipPc = "loop4"
    /\ ~TestAll
    /\ Contains(ranges.ipNet, ranges.firstIP)

\* the candidate appended last
LastCandidate(r) == r.ips[Len(r.ips)]

\* C26: in sampled mode the offset added to the block's minimum last octet
\* can be hosts itself, so the last address of the block can be selected
C26_LastAddressSelectable ==
    SampledTurn =>
        ENABLED (/\ chooseIPv4Loop
                 /\ LastCandidate(ranges')[16] = (minIP + hosts) % 256)

\* C27: the expansion of a parsable IPv4 range ends with a finite candidate
\* list: every turn of the walk moves the cursor to a greater value of its
\* first three octets or out of the range, so that after finitely many turns
\* the cursor has left the subnet
C27_WalkLeavesTheRange ==
    [][(ipPc = "loop4" /\ ipPc' = "loop4") =>
          \/ Block(ranges'.firstIP) > Block(ranges.firstIP)
          \/ ~Contains(ranges'.ipNet, ranges'.firstIP)]_vars

----------------------------------------------------------------------------
(* Further properties of the prober *)

\* the dispatcher stands at p.control <- false with the buffer full
Blocked == runPc = "send" /\ Len(control) = controlCap

\* C28: every probe returning, Ping.Run never deadlocks: the dispatcher
\* blocked on a full semaphore is eventually unblocked by a unit that
\* completes, and Run eventually returns, every candidate having been
\* dispatched and its unit being done
C28_RunReturns ==
    /\ Blocked ~> (Len(control) < controlCap)
    /\ <>(runPc = "returned" /\ \A u \in DOMAIN unit : unit[u].pc = "done")

\* two candidates under a limit of one: the dispatcher is blocked with the
\* second candidate while the first unit is about to give its slot back
C28_Witness ==
    /\ Blocked
    /\ controlCap = 1
    /\ Len(ips) = 2
    /\ runIdx = 2
    /\ unit[1].pc = "release"
    /\ unit[2].pc = "idle"

----------------------------------------------------------------------------
(* Properties of the read loop of downloadHandler *)

\* a Read has returned io.EOF or another error
StreamEnded == "EOF" \in seen \/ "error" \in seen

\* C29 as stated: the loop stops at the first end of stream or read error:
\* once a Read has returned io.EOF or an error, with a known or an unknown
\* content length, there is no further Read and no further sample; and the
\* loop has exited by the first iteration that observes the deadline passed
C29_StopsAtEndOfStream ==
    [][/\ StreamEnded => (reads' = reads /\ samples' = samples)
       /\ "deadline" \in seen' => rdPc' = "return"]_vars

\* C29, amended: once a Read has returned io.EOF or an error there is no
\* further Read. With an unknown content length, and on an error other than
\* io.EOF, the loop is left at once, with no further sample and without the
\* bytes of that Read; with a known content length the Read that returns
\* io.EOF brings the last bytes, one sample is added for the last time slice,
\* the bytes are counted and the loop ends. In every case the loop has exited
\* by the first iteration that observes the deadline passed
C29_StopsReadingAtEndOfStream ==
    [][/\ StreamEnded => reads' = reads
       /\ ("error" \in seen \/ ("EOF" \in seen /\ contentLength = -1)) =>
             /\ samples' = samples
             /\ contentRead' = contentRead
             /\ rdPc' = "return"
       /\ ("EOF" \in seen /\ contentLength # -1 /\ rdPc = "after") =>
             /\ samples' = Append(samples, samples'[Len(samples')])
             /\ samples'[Len(samples')].kind = "last"
             /\ contentRead' = contentLength
       /\ ("EOF" \in seen /\ contentLength # -1 /\ rdPc # "after") =>
             /\ samples' = samples
             /\ rdPc' = "return"
       /\ "deadline" \in seen' => rdPc' = "return"]_vars

\* a body of 1025 announced bytes was read in two Reads, the second returned
\* io.EOF, the sample of the last time slice was added and the loop is over
C29_Witness ==
    /\ rdPc = "return"
    /\ contentLength = bufferSize + 1
    /\ contentRead = contentLength
    /\ reads = 2
    /\ "EOF" \in seen
    /\ samples # <<>>
    /\ samples[Len(samples)].kind = "last"

====
